---- MODULE Spec2Model ----
(***************************************************************************)
(* Zero-knowledge Sudoku prover: the grid, the colouring graph built from  *)
(* it, the hash commitments, and the Prover / Verifier round state         *)
(* machines with the ZKProtocol driver.                                    *)
(*                                                                         *)
(* The grid is scaled: a box is BoxSize x BoxSize, the grid is N x N with  *)
(* N = BoxSize^2 values (the program has BoxSize = 3, N = 9).              *)
(***************************************************************************)
EXTENDS Integers, Sequences, FiniteSets, TLC

VARIABLES
    grid,       \* the SudokuGrid handed to Prover::new / ZKProtocol::new
    prover,     \* the Prover, Absent before it is built
    verifier,   \* the Verifier, Absent before it is built
    call,       \* the last operation called, with its arguments
    ret,        \* what it returned
    proof       \* ZKProtocol::run_proof: its loop position and result

vars == <<grid, prover, verifier, call, ret, proof>>

----------------------------------------------------------------------------
(* Bounds of the model *)

BoxSize == 2
MaxRounds == 2
MaxShift == 1
MaxSeed == 0
MaxByte == 1
MaxEdits == 2
MaxEdgeIds == 3
MaxChallenges == 2
MaxEdgeCount == 3
MaxRoundsNeeded == 9
MaxTestEdges == 2

N == BoxSize * BoxSize

----------------------------------------------------------------------------
(* sodoku/value.rs, sodoku/position.rs *)

ALL_VALUES == [i \in 1..N |-> i]

Values == {ALL_VALUES[i] : i \in 1..N}

to_numeric(v) == v

to_index(v) == v - 1

from_index(i) == i + 1

ALL_POSITIONS == 0..(N - 1)

\* The i-th point of the box numbered pos, as <<x, y>>.
get_box_positions(pos) ==
    LET start_x == (pos % BoxSize) * BoxSize
        start_y == (pos \div BoxSize) * BoxSize
    IN  [i \in 0..(N - 1) |-> <<start_x + (i \div BoxSize), start_y + (i % BoxSize)>>]

----------------------------------------------------------------------------
(* Cell: Empty, Hint(Value) or Guess(Value) *)

Empty == [kind |-> "Empty"]

Hint(v) == [kind |-> "Hint", value |-> v]

Guess(v) == [kind |-> "Guess", value |-> v]

is_empty(cell) == cell.kind = "Empty"

is_filled(cell) == ~is_empty(cell)

\* Option<Value>: the set holding the value, empty for Cell::Empty.
value(cell) == IF is_empty(cell) THEN {} ELSE {cell.value}

----------------------------------------------------------------------------
(* sodoku/set.rs, sodoku/grid.rs: a grid is cells[x][y], x, y in 0..N-1 *)

\* filter_map(value).all_unique() over the N cells of a set
is_valid(cells) ==
    \A i, j \in 0..(N - 1) :
        (i < j /\ is_filled(cells[i]) /\ is_filled(cells[j]))
            => cells[i].value # cells[j].value

is_filled_set(cells) == \A i \in 0..(N - 1) : is_filled(cells[i])

get_cell(g, point) == g[point[1]][point[2]]

get_row(g, row) == g[row]

get_column(g, col) == [row \in ALL_POSITIONS |-> g[row][col]]

get_square(g, pos) == [i \in 0..(N - 1) |-> get_cell(g, get_box_positions(pos)[i])]

is_valid_solution_bad(g) ==
    /\ \A row \in ALL_POSITIONS : is_valid(get_row(g, row))
    /\ \A col \in ALL_POSITIONS : is_valid(get_column(g, col))

is_valid_solution(g) ==
    /\ \A row \in ALL_POSITIONS : is_valid(get_row(g, row))
    /\ \A col \in ALL_POSITIONS : is_valid(get_column(g, col))
    /\ \A square \in ALL_POSITIONS : is_valid(get_square(g, square))

fully_populated(g) == \A x, y \in ALL_POSITIONS : is_filled(g[x][y])

----------------------------------------------------------------------------
(* graph/mod.rs: nodes are 0..N*N-1 for the cells (x-major) and            *)
(* N*N..N*N+N-1 for the clique; edge ids are the insertion order, from 0.  *)

cell_nodes(x, y) == x * N + y

clique_nodes(i) == N * N + i

NodeIds == 0..(N * N + N - 1)

RECURSIVE Flatten(_)
Flatten(ss) == IF ss = <<>> THEN <<>> ELSE Head(ss) \o Flatten(Tail(ss))

\* for i in 0..8 { for j in (i + 1)..9 { add_edge(s[i], s[j]) } }, s indexed from 0
RECURSIVE connect_all(_, _, _)
connect_all(s, i, j) ==
    IF i >= N - 1 THEN <<>>
    ELSE IF j >= N THEN connect_all(s, i + 1, i + 2)
    ELSE <<<<s[i], s[j]>>>> \o connect_all(s, i, j + 1)

row_edges ==
    Flatten([r \in 1..N |->
        connect_all([i \in 0..(N - 1) |-> cell_nodes(r - 1, i)], 0, 1)])

column_edges ==
    Flatten([c \in 1..N |->
        connect_all([i \in 0..(N - 1) |-> cell_nodes(i, c - 1)], 0, 1)])

\* box_row, box_col in 0..2; box_nodes pushed for r, c in 0..3
box_edges ==
    Flatten([b \in 1..N |->
        LET box_row == (b - 1) \div BoxSize
            box_col == (b - 1) % BoxSize
            start_row == box_row * BoxSize
            start_col == box_col * BoxSize
        IN  connect_all([i \in 0..(N - 1) |->
                cell_nodes(start_row + (i \div BoxSize), start_col + (i % BoxSize))], 0, 1)])

\* the hint edges of a cell going to every clique node, its own value's included
RECURSIVE hint_cell_edges_every_clique(_, _, _)
hint_cell_edges_every_clique(cell_node, value_idx, i) ==
    IF i >= N THEN <<>>
    ELSE <<<<cell_node, clique_nodes(i)>>>>
         \o hint_cell_edges_every_clique(cell_node, value_idx, i + 1)

\* the clique nodes a hint cell is connected to, in clique order
RECURSIVE hint_cell_edges(_, _, _)
hint_cell_edges(cell_node, value_idx, i) ==
    IF i >= N THEN <<>>
    ELSE (IF i # value_idx THEN <<<<cell_node, clique_nodes(i)>>>> ELSE <<>>)
         \o hint_cell_edges(cell_node, value_idx, i + 1)

\* hint edges added for the guess cells as well
hint_edges_for_guesses(g) ==
    Flatten([k \in 1..(N * N) |->
        LET x == (k - 1) \div N
            y == (k - 1) % N
            cell == g[x][y]
        IN  IF cell.kind \in {"Hint", "Guess"}
            THEN hint_cell_edges(cell_nodes(x, y), to_numeric(cell.value) - 1, 0)
            ELSE <<>>])

hint_edges(g) ==
    Flatten([k \in 1..(N * N) |->
        LET x == (k - 1) \div N
            y == (k - 1) % N
            cell == g[x][y]
        IN  IF cell.kind = "Hint"
            THEN hint_cell_edges(cell_nodes(x, y), to_numeric(cell.value) - 1, 0)
            ELSE <<>>])

Panic == [panic |-> "unwrap on None"]

\* Graph: node weights (the labels) and the edge list; Panic when a cell has no value.
from_sudoku(g) ==
    IF ~fully_populated(g) THEN Panic
    ELSE LET es == row_edges \o column_edges \o box_edges \o hint_edges(g)
         IN  [ nodes |-> [n \in NodeIds |->
                            IF n < N * N THEN g[n \div N][n % N].value
                            ELSE ALL_VALUES[n - N * N + 1]],
               edges |-> [e \in 0..(Len(es) - 1) |-> es[e + 1]] ]

edge_count(graph) == Cardinality(DOMAIN graph.edges)

Err(e) == [tag |-> "Err", err |-> e]

Ok(v) == [tag |-> "Ok", val |-> v]

get_edge_nodes_swapped(graph, edge) ==
    IF edge \in DOMAIN graph.edges
    THEN Ok(<<graph.edges[edge][2], graph.edges[edge][1]>>)
    ELSE Err("EdgeNotFound")

get_edge_nodes(graph, edge) ==
    IF edge \in DOMAIN graph.edges THEN Ok(graph.edges[edge]) ELSE Err("EdgeNotFound")

\* no edge joins two nodes with equal labels
proper_colouring(graph) ==
    \A e \in DOMAIN graph.edges :
        graph.nodes[graph.edges[e][1]] # graph.nodes[graph.edges[e][2]]

----------------------------------------------------------------------------
(* Option<T>: a set with at most one element *)

None == {}

Some(x) == {x}

unwrap(opt) == CHOOSE x \in opt : TRUE

----------------------------------------------------------------------------
(* crypto/colour_shuffle.rs: value_map is a shuffle of ALL_VALUES *)

AllShuffles ==
    {m \in [1..N -> Values] : \A i, j \in 1..N : i # j => m[i] # m[j]}

\* the shuffles the multi-round specifications sample from: ALL_VALUES rotated
RotShuffles ==
    {[i \in 1..N |-> ALL_VALUES[((i - 1 + k) % N) + 1]] : k \in 0..MaxShift}

\* apply leaving the value as it is
apply_identity(shuffle, v) == v

apply(shuffle, v) == shuffle[to_index(v) + 1]

\* reverse_apply mapping forward, as apply does
reverse_apply_forward(shuffle, v) == shuffle[to_index(v) + 1]

reverse_apply(shuffle, v) ==
    from_index(CHOOSE index \in 0..(N - 1) :
        /\ shuffle[index + 1] = v
        /\ \A k \in 0..(index - 1) : shuffle[k + 1] # v)

----------------------------------------------------------------------------
(* crypto/commitment.rs.  A nonce is a byte string; the digest of BLAKE3   *)
(* is modelled collision-free: it determines the hashed bytes.             *)

Bytes == 0..MaxByte

Nonces == {<<b>> : b \in Bytes}

CommitmentKey(v, nonce) == [value |-> v, nonce |-> nonce]

blake3(input) == [digest |-> input]

compute_hash(v, nonce) == blake3(<<to_numeric(v)>> \o nonce)

verify_hash_value_only(c, k) == c.hash.digest[1] = to_numeric(k.value)

verify_hash(c, k) == compute_hash(k.value, k.nonce) = c.hash

\* Commitment::new with the nonce generate_nonce drew
Commitment_new(v, node_id, nonce) ==
    << [hash |-> compute_hash(v, nonce), node_id |-> node_id,
        key |-> None, marker |-> "Hidden"],
       CommitmentKey(v, nonce) >>

reveal(c, k) ==
    IF ~verify_hash(c, k) THEN Err("InvalidReveal")
    ELSE Ok([hash |-> c.hash, node_id |-> c.node_id,
             key |-> Some(k), marker |-> "Revealed"])

key(c) == unwrap(c.key)

\* the nonce drawn for node n in a round whose randomness is seed
generate_nonce(seed, n) == <<(seed + n) % (MaxByte + 1)>>

Seeds == 0..MaxSeed

----------------------------------------------------------------------------
(* zkproof/prover.rs.  An operation returns [st |-> the object after the   *)
(* call, ret |-> the value returned].                                      *)

RoundIds == 0..MaxRounds

Prover_new_validating(puzzle) ==
    IF ~is_valid_solution(puzzle) THEN Err("SudokuError")
    ELSE LET graph == from_sudoku(puzzle)
         IN  IF graph = Panic THEN Panic
             ELSE Ok([prover |-> [graph |-> graph, rounds |-> <<>>, current_round |-> 0],
                      edge_map |-> graph.edges])

\* Result<(Prover, EdgeNodeMap), ZkProofError>, the pair as a record; the
\* validation is commented out
Prover_new(puzzle) ==
    LET graph == from_sudoku(puzzle)
    IN  IF graph = Panic THEN Panic
        ELSE Ok([prover |-> [graph |-> graph, rounds |-> <<>>, current_round |-> 0],
                 edge_map |-> graph.edges])

\* start_round taking the current round as the id of the new round
start_round_keeping_id(p, colour_shuffle, seed) ==
    LET made == [n \in DOMAIN p.graph.nodes |->
                    Commitment_new(apply(colour_shuffle, p.graph.nodes[n]), n,
                                   generate_nonce(seed, n))]
        round == [colour_shuffle |-> colour_shuffle,
                  commitment_keys |-> [n \in DOMAIN made |-> made[n][2]],
                  challenged_edges |-> <<>>]
        round_id == p.current_round
    IN  [st |-> [p EXCEPT !.rounds = Append(@, round), !.current_round = round_id],
         ret |-> [round_id |-> round_id,
                  commitments |-> [n \in DOMAIN made |-> made[n][1]]]]

\* start_round committing to the labels as they are, not to the shuffled ones
start_round_unshuffled(p, colour_shuffle, seed) ==
    LET made == [n \in DOMAIN p.graph.nodes |->
                    Commitment_new(p.graph.nodes[n], n, generate_nonce(seed, n))]
        round == [colour_shuffle |-> colour_shuffle,
                  commitment_keys |-> [n \in DOMAIN made |-> made[n][2]],
                  challenged_edges |-> <<>>]
        round_id == Len(p.rounds)
    IN  [st |-> [p EXCEPT !.rounds = Append(@, round), !.current_round = round_id],
         ret |-> [round_id |-> round_id,
                  commitments |-> [n \in DOMAIN made |-> made[n][1]]]]

start_round(p, colour_shuffle, seed) ==
    LET made == [n \in DOMAIN p.graph.nodes |->
                    Commitment_new(apply(colour_shuffle, p.graph.nodes[n]), n,
                                   generate_nonce(seed, n))]
        round == [colour_shuffle |-> colour_shuffle,
                  commitment_keys |-> [n \in DOMAIN made |-> made[n][2]],
                  challenged_edges |-> <<>>]
        round_id == Len(p.rounds)
    IN  [st |-> [p EXCEPT !.rounds = Append(@, round), !.current_round = round_id],
         ret |-> [round_id |-> round_id,
                  commitments |-> [n \in DOMAIN made |-> made[n][1]]]]

contains(seq, x) == \E i \in 1..Len(seq) : seq[i] = x

respond_to_challenge_any_round(p, challenge) ==
    IF challenge.round_id >= Len(p.rounds)
    THEN [st |-> p, ret |-> Panic]
    ELSE LET round_idx == challenge.round_id
             round == p.rounds[round_idx + 1]
             nodes == get_edge_nodes(p.graph, challenge.edge)
         IN  IF contains(round.challenged_edges, challenge.edge)
             THEN [st |-> p, ret |-> Err("AlreadyRevealed")]
             ELSE IF nodes.tag = "Err"
             THEN [st |-> p, ret |-> [tag |-> "Err", err |-> "EdgeNotFound",
                                      edge |-> challenge.edge]]
             ELSE [st |-> [p EXCEPT !.rounds[round_idx + 1].challenged_edges =
                                        Append(@, challenge.edge)],
                   ret |-> Ok([round_id |-> challenge.round_id,
                               edge |-> challenge.edge,
                               node1 |-> [node_idx |-> nodes.val[1],
                                          node_key |-> round.commitment_keys[nodes.val[1]]],
                               node2 |-> [node_idx |-> nodes.val[2],
                                          node_key |-> round.commitment_keys[nodes.val[2]]]])]

\* respond_to_challenge without its AlreadyRevealed check
respond_to_challenge_revealing_again(p, challenge) ==
    IF challenge.round_id # p.current_round
    THEN [st |-> p, ret |-> Err("RoundMismatch")]
    ELSE IF challenge.round_id >= Len(p.rounds)
    THEN [st |-> p, ret |-> Panic]
    ELSE LET round_idx == challenge.round_id
             round == p.rounds[round_idx + 1]
             nodes == get_edge_nodes(p.graph, challenge.edge)
         IN  IF nodes.tag = "Err"
             THEN [st |-> p, ret |-> [tag |-> "Err", err |-> "EdgeNotFound",
                                      edge |-> challenge.edge]]
             ELSE [st |-> [p EXCEPT !.rounds[round_idx + 1].challenged_edges =
                                        Append(@, challenge.edge)],
                   ret |-> Ok([round_id |-> challenge.round_id,
                               edge |-> challenge.edge,
                               node1 |-> [node_idx |-> nodes.val[1],
                                          node_key |-> round.commitment_keys[nodes.val[1]]],
                               node2 |-> [node_idx |-> nodes.val[2],
                                          node_key |-> round.commitment_keys[nodes.val[2]]]])]

\* respond_to_challenge recording the edge before it looks it up
respond_to_challenge_recording_first(p, challenge) ==
    IF challenge.round_id # p.current_round
    THEN [st |-> p, ret |-> Err("RoundMismatch")]
    ELSE IF challenge.round_id >= Len(p.rounds)
    THEN [st |-> p, ret |-> Panic]
    ELSE LET r == respond_to_challenge_any_round(p, challenge)
         IN  IF r.ret.tag = "Err" /\ r.ret.err = "EdgeNotFound"
             THEN [st |-> [p EXCEPT !.rounds[challenge.round_id + 1].challenged_edges =
                                        Append(@, challenge.edge)],
                   ret |-> r.ret]
             ELSE r

respond_to_challenge(p, challenge) ==
    IF challenge.round_id # p.current_round
    THEN [st |-> p, ret |-> Err("RoundMismatch")]
    ELSE IF challenge.round_id >= Len(p.rounds)
    THEN [st |-> p, ret |-> Panic]     \* self.rounds[round_idx] out of bounds
    ELSE LET round_idx == challenge.round_id
             round == p.rounds[round_idx + 1]
             nodes == get_edge_nodes(p.graph, challenge.edge)
         IN  IF contains(round.challenged_edges, challenge.edge)
             THEN [st |-> p, ret |-> Err("AlreadyRevealed")]
             ELSE IF nodes.tag = "Err"
             THEN [st |-> p, ret |-> [tag |-> "Err", err |-> "EdgeNotFound",
                                      edge |-> challenge.edge]]
             \* commitment_keys holds every node of the graph: NodeNotFound cannot arise
             ELSE [st |-> [p EXCEPT !.rounds[round_idx + 1].challenged_edges =
                                        Append(@, challenge.edge)],
                   ret |-> Ok([round_id |-> challenge.round_id,
                               edge |-> challenge.edge,
                               node1 |-> [node_idx |-> nodes.val[1],
                                          node_key |-> round.commitment_keys[nodes.val[1]]],
                               node2 |-> [node_idx |-> nodes.val[2],
                                          node_key |-> round.commitment_keys[nodes.val[2]]]])]

----------------------------------------------------------------------------
(* zkproof/verifier.rs *)

Verifier_new(edge_map) == [edge_map |-> edge_map, rounds |-> <<>>, current_round |-> 0]

\* receive_commitment without its round id check
receive_commitment_any_round(v, commitment, challenge_edge) ==
    IF DOMAIN v.edge_map = {}
    THEN [st |-> v, ret |-> Err("NoEdges")]
    ELSE LET round == [commitment |-> commitment,
                       challenge_edge |-> challenge_edge,
                       response |-> None,
                       verified |-> FALSE]
         IN  [st |-> [v EXCEPT !.rounds = Append(@, round),
                               !.current_round = commitment.round_id],
              ret |-> Ok([round_id |-> commitment.round_id, edge |-> challenge_edge])]

\* receive_commitment recording the round before it looks for an edge
receive_commitment_recording_first(v, commitment, challenge_edge) ==
    IF commitment.round_id # Len(v.rounds)
    THEN [st |-> v, ret |-> Err("RoundMismatch")]
    ELSE LET round == [commitment |-> commitment,
                       challenge_edge |-> challenge_edge,
                       response |-> None,
                       verified |-> FALSE]
             recorded == [v EXCEPT !.rounds = Append(@, round),
                                   !.current_round = commitment.round_id]
         IN  IF DOMAIN v.edge_map = {}
             THEN [st |-> recorded, ret |-> Err("NoEdges")]
             ELSE [st |-> recorded,
                   ret |-> Ok([round_id |-> commitment.round_id, edge |-> challenge_edge])]

\* receive_commitment answering with the round id it held before the call
receive_commitment_stale_round(v, commitment, challenge_edge) ==
    IF commitment.round_id # Len(v.rounds)
    THEN [st |-> v, ret |-> Err("RoundMismatch")]
    ELSE IF DOMAIN v.edge_map = {}
    THEN [st |-> v, ret |-> Err("NoEdges")]
    ELSE LET round == [commitment |-> commitment,
                       challenge_edge |-> challenge_edge,
                       response |-> None,
                       verified |-> FALSE]
         IN  [st |-> [v EXCEPT !.rounds = Append(@, round),
                               !.current_round = commitment.round_id],
              ret |-> Ok([round_id |-> v.current_round, edge |-> challenge_edge])]

\* receive_commitment replacing the commitment of a round it holds already
receive_commitment_replacing(v, commitment, challenge_edge) ==
    IF commitment.round_id < Len(v.rounds)
    THEN [st |-> [v EXCEPT !.rounds[commitment.round_id + 1].commitment = commitment],
          ret |-> Err("RoundMismatch")]
    ELSE IF commitment.round_id # Len(v.rounds)
    THEN [st |-> v, ret |-> Err("RoundMismatch")]
    ELSE IF DOMAIN v.edge_map = {}
    THEN [st |-> v, ret |-> Err("NoEdges")]
    ELSE LET round == [commitment |-> commitment,
                       challenge_edge |-> challenge_edge,
                       response |-> None,
                       verified |-> FALSE]
         IN  [st |-> [v EXCEPT !.rounds = Append(@, round),
                               !.current_round = commitment.round_id],
              ret |-> Ok([round_id |-> commitment.round_id, edge |-> challenge_edge])]

\* challenge_edge is the edge `choose` drew from the keys of the edge map
receive_commitment(v, commitment, challenge_edge) ==
    IF commitment.round_id # Len(v.rounds)
    THEN [st |-> v, ret |-> Err("RoundMismatch")]
    ELSE IF DOMAIN v.edge_map = {}
    THEN [st |-> v, ret |-> Err("NoEdges")]
    ELSE LET round == [commitment |-> commitment,
                       challenge_edge |-> challenge_edge,
                       response |-> None,
                       verified |-> FALSE]
         IN  [st |-> [v EXCEPT !.rounds = Append(@, round),
                               !.current_round = commitment.round_id],
              ret |-> Ok([round_id |-> commitment.round_id, edge |-> challenge_edge])]

NodeNotFound(n) == [tag |-> "Err", err |-> "NodeNotFound", node |-> n]

nodes_ok(order, n1, n2, e1, e2) ==
    IF order = "exact" THEN ~(n1 # e1 \/ n2 # e2)
    ELSE (n1 = e1 /\ n2 = e2) \/ (n1 = e2 /\ n2 = e1)

open2(opening, c, k) ==
    IF opening = "reveal" THEN reveal(c, k)
    ELSE Ok([hash |-> c.hash, node_id |-> c.node_id, key |-> Some(k), marker |-> "Revealed"])

ne(comparison, a, b) ==
    CASE comparison = "differ" -> a # b
      [] comparison = "same" -> a = b
      [] comparison = "always" -> TRUE

\* verify_response with its comparisons replaceable: the variants below differ
\* from the code in one comparison each
verify_response_with(v, response, edge_check, order, opening, comparison) ==
    IF response.round_id # v.current_round
    THEN [st |-> v, ret |-> Err("RoundMismatch")]
    ELSE IF response.round_id >= Len(v.rounds)
    THEN [st |-> v, ret |-> Err("RoundMismatch")]
    ELSE IF edge_check = "checked"
            /\ v.rounds[response.round_id + 1].challenge_edge # response.edge
    THEN [st |-> v, ret |-> Err("RoundMismatch")]
    ELSE IF response.edge \notin DOMAIN v.edge_map
    THEN [st |-> v, ret |-> [tag |-> "Err", err |-> "EdgeNotFound",
                             edge |-> response.edge]]
    ELSE
    LET round_idx == response.round_id
        round == v.rounds[round_idx + 1]
        expected == v.edge_map[response.edge]
        node1_idx == response.node1.node_idx
        node2_idx == response.node2.node_idx
        commitments == round.commitment.commitments
    IN  IF ~nodes_ok(order, node1_idx, node2_idx, expected[1], expected[2])
        THEN [st |-> v, ret |-> Err("NodeMismatch")]
        ELSE IF node1_idx \notin DOMAIN commitments
        THEN [st |-> v, ret |-> NodeNotFound(node1_idx)]
        ELSE IF node2_idx \notin DOMAIN commitments
        THEN [st |-> v, ret |-> NodeNotFound(node2_idx)]
        ELSE LET node1_revealed == reveal(commitments[node1_idx], response.node1.node_key)
                 node2_revealed == open2(opening, commitments[node2_idx], response.node2.node_key)
             IN  IF node1_revealed.tag = "Err"
                 THEN [st |-> v, ret |-> node1_revealed]
                 ELSE IF node2_revealed.tag = "Err"
                 THEN [st |-> v, ret |-> node2_revealed]
                 ELSE LET success == ne(comparison, key(node1_revealed.val).value,
                                        key(node2_revealed.val).value)
                          recorded ==
                              [round_id |-> response.round_id,
                               edge |-> response.edge,
                               node1 |-> [node_idx |-> node1_idx,
                                          node_key |-> key(node1_revealed.val)],
                               node2 |-> [node_idx |-> node2_idx,
                                          node_key |-> key(node2_revealed.val)]]
                      IN  [st |-> [v EXCEPT
                                     !.rounds[round_idx + 1].response = Some(recorded),
                                     !.rounds[round_idx + 1].verified = success],
                           ret |-> Ok([round_id |-> response.round_id,
                                       success |-> success])]

verify_response_swapped_ok(v, response) ==
    verify_response_with(v, response, "checked", "either", "reveal", "differ")

verify_response_node2_unchecked(v, response) ==
    verify_response_with(v, response, "checked", "exact", "trust", "differ")

verify_response_accept_all(v, response) ==
    verify_response_with(v, response, "checked", "exact", "reveal", "always")

verify_response_any_edge(v, response) ==
    verify_response_with(v, response, "any", "exact", "reveal", "differ")

verify_response_inverted(v, response) ==
    verify_response_with(v, response, "checked", "exact", "reveal", "same")

verify_response(v, response) ==
    IF response.round_id # v.current_round
    THEN [st |-> v, ret |-> Err("RoundMismatch")]
    ELSE IF response.round_id >= Len(v.rounds)
    THEN [st |-> v, ret |-> Err("RoundMismatch")]     \* rounds.get_mut is None
    ELSE IF v.rounds[response.round_id + 1].challenge_edge # response.edge
    THEN [st |-> v, ret |-> Err("RoundMismatch")]
    ELSE IF response.edge \notin DOMAIN v.edge_map
    THEN [st |-> v, ret |-> [tag |-> "Err", err |-> "EdgeNotFound",
                             edge |-> response.edge]]
    ELSE
    LET round_idx == response.round_id
        round == v.rounds[round_idx + 1]
        expected_node1 == v.edge_map[response.edge][1]
        expected_node2 == v.edge_map[response.edge][2]
        node1_idx == response.node1.node_idx
        node2_idx == response.node2.node_idx
        commitments == round.commitment.commitments
    IN  IF node1_idx # expected_node1 \/ node2_idx # expected_node2
        THEN [st |-> v, ret |-> Err("NodeMismatch")]
        ELSE IF node1_idx \notin DOMAIN commitments
        THEN [st |-> v, ret |-> NodeNotFound(node1_idx)]
        ELSE IF node2_idx \notin DOMAIN commitments
        THEN [st |-> v, ret |-> NodeNotFound(node2_idx)]
        ELSE LET node1_revealed == reveal(commitments[node1_idx], response.node1.node_key)
                 node2_revealed == reveal(commitments[node2_idx], response.node2.node_key)
             IN  IF node1_revealed.tag = "Err"
                 THEN [st |-> v, ret |-> node1_revealed]
                 ELSE IF node2_revealed.tag = "Err"
                 THEN [st |-> v, ret |-> node2_revealed]
                 ELSE LET success == key(node1_revealed.val).value
                                        # key(node2_revealed.val).value
                          recorded ==
                              [round_id |-> response.round_id,
                               edge |-> response.edge,
                               node1 |-> [node_idx |-> node1_idx,
                                          node_key |-> key(node1_revealed.val)],
                               node2 |-> [node_idx |-> node2_idx,
                                          node_key |-> key(node2_revealed.val)]]
                      IN  [st |-> [v EXCEPT
                                     !.rounds[round_idx + 1].response = Some(recorded),
                                     !.rounds[round_idx + 1].verified = success],
                           ret |-> Ok([round_id |-> response.round_id,
                                       success |-> success])]

RECURSIVE pow(_, _)
pow(x, n) == IF n = 0 THEN 1 ELSE x * pow(x, n - 1)

RECURSIVE gcd(_, _)
gcd(a, b) == IF b = 0 THEN a ELSE gcd(b, a % b)

\* fractions <<numerator, denominator>> with positive denominators, compared
\* over their least common denominator
less(a, b) ==
    LET g == gcd(a[2], b[2])
    IN  a[1] * (b[2] \div g) < b[1] * (a[2] \div g)

\* how many of the rounds satisfy .verified
RECURSIVE count_verified(_)
count_verified(rounds) ==
    IF rounds = <<>> THEN 0
    ELSE (IF Head(rounds).verified THEN 1 ELSE 0) + count_verified(Tail(rounds))

\* confidence_level counting every round, verified or not
confidence_level_counting_all(v) ==
    LET edges == Cardinality(DOMAIN v.edge_map)
        successful_rounds == Len(v.rounds)
    IN  IF edges = 0 THEN <<0, 1>>
        ELSE IF successful_rounds = 0 THEN <<0, 1>>
        ELSE <<(pow(edges, successful_rounds) - pow(edges - 1, successful_rounds)) * 100,
               pow(edges, successful_rounds)>>

\* the percentage (1 - (1 - 1 / edge_count)^successful_rounds) * 100, as the
\* fraction <<numerator, denominator>> over edge_count^successful_rounds
confidence_level(v) ==
    LET edges == Cardinality(DOMAIN v.edge_map)
        successful_rounds == count_verified(v.rounds)
    IN  IF edges = 0 THEN <<0, 1>>
        ELSE IF successful_rounds = 0 THEN <<0, 1>>
        ELSE <<(pow(edges, successful_rounds) - pow(edges - 1, successful_rounds)) * 100,
               pow(edges, successful_rounds)>>

----------------------------------------------------------------------------
(* zkproof/protocol.rs *)

ZKProtocol_new(puzzle) ==
    LET made == Prover_new(puzzle)
    IN  IF made = Panic THEN Panic
        ELSE IF made.tag = "Err" THEN made
        ELSE Ok([prover |-> made.val.prover, verifier |-> Verifier_new(made.val.edge_map)])

\* one round with the shuffle and nonces the Prover draws and the edge the
\* Verifier draws; `?` returns the first error
run_round(zk, colour_shuffle, seed, challenge_edge) ==
    LET started == start_round(zk.prover, colour_shuffle, seed)
        received == receive_commitment(zk.verifier, started.ret, challenge_edge)
    IN  IF received.ret.tag = "Err"
        THEN [st |-> [prover |-> started.st, verifier |-> received.st],
              ret |-> received.ret]
        ELSE LET responded == respond_to_challenge(started.st, received.ret.val)
             IN  IF responded.ret = Panic \/ responded.ret.tag = "Err"
                 THEN [st |-> [prover |-> responded.st, verifier |-> received.st],
                       ret |-> responded.ret]
                 ELSE LET verified == verify_response(received.st, responded.ret.val)
                      IN  [st |-> [prover |-> responded.st, verifier |-> verified.st],
                           ret |-> verified.ret]

\* the confidences asked for, in percent
Confidences == 1..99

\* ceil(ln(target) / ln(miss)) for the fractions 0 < target < 1 and
\* 0 < miss < 1, each <<numerator, denominator>>: the least n with
\* miss^n <= target, found from n upwards; MaxRoundsNeeded + 1 stands for
\* every larger result
RECURSIVE ceil_ln_ratio(_, _, _)
ceil_ln_ratio(target, miss, n) ==
    IF n > MaxRoundsNeeded THEN n
    ELSE IF pow(miss[1], n) * target[2] <= target[1] * pow(miss[2], n) THEN n
    ELSE ceil_ln_ratio(target, miss, n + 1)

\* catch_prob = 1 / edge_count, miss = 1 - catch_prob, log_term =
\* ln(1 - confidence / 100) / ln(miss), returned as ceil(log_term) as usize.
\* With one edge miss is 0.0 and ln(miss) is -inf, so log_term is 0.0; with no
\* edge catch_prob is inf and log_term is NaN, which the cast makes 0.
calculate_rounds_needed(edges, confidence) ==
    IF edges <= 1 THEN 0
    ELSE ceil_ln_ratio(<<100 - confidence, 100>>, <<edges - 1, edges>>, 0)

----------------------------------------------------------------------------
(* Input grids *)

\* a valid solution: row x is the values shifted by BoxSize * (x % BoxSize) + x / BoxSize
Canon(x, y) == ((BoxSize * (x % BoxSize) + (x \div BoxSize) + y) % N) + 1

\* a Latin square: rows and columns are valid, boxes are not
Latin(x, y) == ((x + y) % N) + 1

\* which cells are hints: none (0), the diagonal (1), all (2)
is_hint(mask, x, y) == (mask = 1 /\ x = y) \/ mask = 2

\* the same solution transposed, and with its values renamed
Transposed(x, y) == Canon(y, x)

Relabelled(x, y) == (Canon(x, y) % N) + 1

Base(base, x, y) ==
    CASE base = "Canon" -> Canon(x, y)
      [] base = "Latin" -> Latin(x, y)
      [] base = "Transposed" -> Transposed(x, y)
      [] base = "Relabelled" -> Relabelled(x, y)

GridOf(base, mask) ==
    [x \in ALL_POSITIONS |-> [y \in ALL_POSITIONS |->
        IF is_hint(mask, x, y) THEN Hint(Base(base, x, y)) ELSE Guess(Base(base, x, y))]]

Cells == {Empty} \cup {Hint(v) : v \in Values} \cup {Guess(v) : v \in Values}

RECURSIVE Edited(_, _, _)
Edited(gs, cells, k) ==
    IF k = 0 THEN gs
    ELSE LET prev == Edited(gs, cells, k - 1)
         IN  prev \cup {[g EXCEPT ![x][y] = c] :
                            g \in prev, x \in ALL_POSITIONS, y \in ALL_POSITIONS, c \in cells}

BaseGrids == {GridOf("Canon", 0), GridOf("Canon", 1), GridOf("Latin", 0)}

\* every grid within MaxEdits cells of a base grid, empty cells included
AllGrids == Edited(BaseGrids, Cells, MaxEdits)

----------------------------------------------------------------------------
(* State machine *)

Absent == [absent |-> TRUE]

NoCall == [op |-> "none"]

NoRet == [tag |-> "none"]

Idle == [pc |-> "idle"]

InitOn(grids) ==
    /\ grid \in grids
    /\ prover = Absent
    /\ verifier = Absent
    /\ call = NoCall
    /\ ret = NoRet
    /\ proof = Idle

\* a panic ends the process
Alive == ret # Panic

IsCommitment(r) == "commitments" \in DOMAIN r

IsResponse(r) == "tag" \in DOMAIN r /\ r.tag = "Ok" /\ "node1" \in DOMAIN r.val

\* Prover::new(&grid)
NewProver ==
    /\ prover = Absent
    /\ call.op = "none"
    /\ LET made == Prover_new(grid)
       IN  /\ ret' = made
           /\ prover' = IF made # Panic /\ made.tag = "Ok" THEN made.val.prover ELSE Absent
    /\ call' = [op |-> "Prover::new"]
    /\ UNCHANGED <<grid, verifier, proof>>

\* Verifier::new(edge_map), with the edge map Prover::new returned or an empty one
NewVerifier ==
    /\ Alive
    /\ prover # Absent
    /\ verifier = Absent
    /\ call.op = "Prover::new"
    /\ \E edge_map \in {ret.val.edge_map, <<>>} :
          /\ verifier' = Verifier_new(edge_map)
          /\ call' = [op |-> "Verifier::new", arg |-> edge_map]
    /\ ret' = NoRet
    /\ UNCHANGED <<grid, prover, proof>>

\* an edge map made up as the tests do: edge i joins nodes i and i + 1
create_test_edge_map(count) == [i \in 0..(count - 1) |-> <<i, i + 1>>]

\* Verifier::new(edge_map) with a made-up edge map
NewTestVerifier ==
    /\ Alive
    /\ prover # Absent
    /\ verifier = Absent
    /\ call.op = "Prover::new"
    /\ \E count \in 1..MaxTestEdges :
          /\ verifier' = Verifier_new(create_test_edge_map(count))
          /\ call' = [op |-> "Verifier::new", arg |-> create_test_edge_map(count)]
    /\ ret' = NoRet
    /\ UNCHANGED <<grid, prover, proof>>

\* prover.start_round(), drawing its shuffle from shuffles
StartRound(shuffles) ==
    /\ Alive
    /\ prover # Absent
    /\ proof = Idle
    /\ Len(prover.rounds) < MaxRounds
    /\ \E colour_shuffle \in shuffles, seed \in Seeds :
          LET r == start_round(prover, colour_shuffle, seed)
          IN  /\ prover' = r.st
              /\ ret' = r.ret
    /\ call' = [op |-> "start_round"]
    /\ UNCHANGED <<grid, verifier, proof>>

\* the edge ids a caller sends: the first MaxEdgeIds ids, or all of them
SomeEdges(edge_map) == {e \in DOMAIN edge_map : e < MaxEdgeIds}

EveryEdge(edge_map) == DOMAIN edge_map

\* max edge index + 1: not an edge of the graph
invalid_edge(edge_map) == Cardinality(DOMAIN edge_map)

\* verifier.receive_commitment(c): c is what start_round just returned, its round
\* id kept or overridden; the challenge edge is one of SomeEdges
ReceiveCommitment ==
    /\ Alive
    /\ verifier # Absent
    /\ proof = Idle
    /\ IsCommitment(ret)
    /\ Len(verifier.rounds) < MaxRounds
    /\ \E round_id \in RoundIds :
       \E challenge_edge \in IF DOMAIN verifier.edge_map = {} THEN {0}
                             ELSE SomeEdges(verifier.edge_map) :
          LET commitment == [ret EXCEPT !.round_id = round_id]
              r == receive_commitment(verifier, commitment, challenge_edge)
          IN  /\ verifier' = r.st
              /\ ret' = r.ret
              /\ call' = [op |-> "receive_commitment", arg |-> commitment]
    /\ UNCHANGED <<grid, prover, proof>>

\* prover.respond_to_challenge(challenge)
Respond(challenge) ==
    /\ Alive
    /\ prover # Absent
    /\ proof = Idle
    /\ LET r == respond_to_challenge(prover, challenge)
       IN  /\ r.ret # Panic =>
                \A k \in 1..Len(r.st.rounds) :
                    Len(r.st.rounds[k].challenged_edges) <= MaxChallenges
           /\ prover' = r.st
           /\ ret' = r.ret
           /\ call' = [op |-> "respond_to_challenge", arg |-> challenge]
    /\ UNCHANGED <<grid, verifier, proof>>

\* a challenge made up by the caller: any round id, any of some edge ids or an
\* id that is no edge
RespondToAny ==
    /\ prover # Absent
    /\ \E round_id \in RoundIds :
       \E edge \in SomeEdges(prover.graph.edges) \cup {invalid_edge(prover.graph.edges)} :
          Respond([round_id |-> round_id, edge |-> edge])

\* a challenge the Verifier issued: for its latest round or an earlier one
RespondToIssued ==
    /\ verifier # Absent
    /\ \E k \in 1..Len(verifier.rounds) :
          Respond([round_id |-> verifier.rounds[k].commitment.round_id,
                   edge |-> verifier.rounds[k].challenge_edge])

\* the responses a caller can make of an honest one by changing one part
swapped(response) ==
    [response EXCEPT !.node1 = response.node2, !.node2 = response.node1]

other_value(v) == (v % N) + 1

other_nonce(x) == <<(x[1] + 1) % (MaxByte + 1)>>

Tampered(response, edge_ids) ==
    {response, swapped(response)}
    \cup {[response EXCEPT !.round_id = r] : r \in RoundIds}
    \cup {[response EXCEPT !.edge = e] : e \in edge_ids}
    \cup {[response EXCEPT !.node1.node_idx = n] : n \in {response.node2.node_idx, N * N}}
    \cup {[response EXCEPT !.node2.node_idx = n] : n \in {response.node1.node_idx, N * N}}
    \cup {[response EXCEPT !.node1.node_key.value = other_value(@)],
          [response EXCEPT !.node2.node_key.value = other_value(@)],
          [response EXCEPT !.node1.node_key.nonce = other_nonce(@)],
          [response EXCEPT !.node2.node_key.nonce = other_nonce(@)]}

\* a key and a response made up by the caller, not by a Prover
new_dummy(v) == CommitmentKey(v, <<1, 2, 3, 4>>)

dummy_response ==
    [round_id |-> 0, edge |-> 0,
     node1 |-> [node_idx |-> 0, node_key |-> new_dummy(ALL_VALUES[1])],
     node2 |-> [node_idx |-> 1, node_key |-> new_dummy(ALL_VALUES[2])]]

\* the responses at hand: the one respond_to_challenge just returned, those
\* the Verifier recorded and, while it has no round, a made-up one
ResponsesAtHand ==
    (IF IsResponse(ret) THEN {ret.val} ELSE {})
    \cup (IF verifier.rounds = <<>> THEN {dummy_response} ELSE {})
    \cup UNION {verifier.rounds[k].response : k \in 1..Len(verifier.rounds)}

\* verifier.verify_response(response): a response at hand, as it is or tampered with
VerifyResponse ==
    /\ Alive
    /\ verifier # Absent
    /\ proof = Idle
    /\ \E honest \in ResponsesAtHand :
       \E response \in Tampered(honest,
            SomeEdges(verifier.edge_map) \cup {invalid_edge(verifier.edge_map)}) :
          LET r == verify_response(verifier, response)
          IN  /\ verifier' = r.st
              /\ ret' = r.ret
              /\ call' = [op |-> "verify_response", arg |-> response]
    /\ UNCHANGED <<grid, prover, proof>>

\* ZKProtocol::new(&grid)
NewProtocol ==
    /\ prover = Absent
    /\ verifier = Absent
    /\ call.op = "none"
    /\ LET made == ZKProtocol_new(grid)
       IN  /\ ret' = made
           /\ prover' = IF made # Panic /\ made.tag = "Ok" THEN made.val.prover ELSE Absent
           /\ verifier' = IF made # Panic /\ made.tag = "Ok" THEN made.val.verifier ELSE Absent
    /\ call' = [op |-> "ZKProtocol::new"]
    /\ UNCHANGED <<grid, proof>>

\* zk.run_round(), called directly
RunRound(shuffles, edges, cap) ==
    /\ Alive
    /\ prover # Absent
    /\ verifier # Absent
    /\ proof = Idle
    /\ Len(prover.rounds) < cap
    /\ \E colour_shuffle \in shuffles, seed \in Seeds :
       \E challenge_edge \in edges :
          LET r == run_round([prover |-> prover, verifier |-> verifier],
                             colour_shuffle, seed, challenge_edge)
          IN  /\ prover' = r.st.prover
              /\ verifier' = r.st.verifier
              /\ ret' = r.ret
    /\ call' = [op |-> "run_round"]
    /\ UNCHANGED <<grid, proof>>

\* zk.run_proof(num_rounds) is entered: `for round in 1..=num_rounds`
BeginProof(counts) ==
    /\ Alive
    /\ prover # Absent
    /\ verifier # Absent
    /\ proof = Idle
    /\ Len(prover.rounds) = 0
    /\ \E num_rounds \in counts :
          /\ proof' = [pc |-> "loop", num_rounds |-> num_rounds, round |-> 1]
          /\ call' = [op |-> "run_proof", arg |-> num_rounds]
    /\ ret' = NoRet
    /\ UNCHANGED <<grid, prover, verifier>>

\* the loop of run_proof going on although the round was rejected
proof_after_continuing(p, result) ==
    IF result = Panic \/ result.tag = "Err"
    THEN [pc |-> "done", num_rounds |-> p.num_rounds, round |-> p.round, result |-> result]
    ELSE [p EXCEPT !.round = @ + 1]

\* the loop of run_proof returning Ok(false) for an error of the round
proof_after_hiding_error(p, result) ==
    IF result = Panic \/ result.tag = "Err" \/ ~result.val.success
    THEN [pc |-> "done", num_rounds |-> p.num_rounds, round |-> p.round, result |-> Ok(FALSE)]
    ELSE [p EXCEPT !.round = @ + 1]

\* `if !self.run_round()?.success { return Ok(false); }`: where run_proof is
\* after a round that returned result
proof_after(p, result) ==
    IF result = Panic \/ result.tag = "Err"
    THEN [pc |-> "done", num_rounds |-> p.num_rounds, round |-> p.round, result |-> result]
    ELSE IF ~result.val.success
    THEN [pc |-> "done", num_rounds |-> p.num_rounds, round |-> p.round, result |-> Ok(FALSE)]
    ELSE [p EXCEPT !.round = @ + 1]

\* one iteration of the loop of run_proof
ProofRound(shuffles, edges) ==
    /\ proof.pc = "loop"
    /\ proof.round <= proof.num_rounds
    /\ \E colour_shuffle \in shuffles, seed \in Seeds :
       \E challenge_edge \in edges :
          LET r == run_round([prover |-> prover, verifier |-> verifier],
                             colour_shuffle, seed, challenge_edge)
          IN  /\ prover' = r.st.prover
              /\ verifier' = r.st.verifier
              /\ proof' = proof_after(proof, r.ret)
    /\ UNCHANGED <<grid, call, ret>>

\* the loop of run_proof is over: Ok(true)
ProofReturn ==
    /\ proof.pc = "loop"
    /\ proof.round > proof.num_rounds
    /\ proof' = [pc |-> "done", num_rounds |-> proof.num_rounds,
                 round |-> proof.round, result |-> Ok(TRUE)]
    /\ UNCHANGED <<grid, prover, verifier, call, ret>>

\* Prover::new on every input grid
InitGrid == InitOn(AllGrids)

NextGrid == NewProver

SpecGrid == InitGrid /\ [][NextGrid]_vars

\* grid.is_valid_solution() on its own
IsValidSolution ==
    /\ call.op = "none"
    /\ ret' = [value |-> is_valid_solution(grid)]
    /\ call' = [op |-> "is_valid_solution"]
    /\ UNCHANGED <<grid, prover, verifier, proof>>

InitSolution == InitOn(AllGrids)

NextSolution == IsValidSolution

SpecSolution == InitSolution /\ [][NextSolution]_vars

\* The Prover called with challenges of the caller's making
ApiGrids == {GridOf("Canon", 1), [GridOf("Canon", 1) EXCEPT ![0][1] = Guess(Canon(0, 0))]}

InitProver == InitOn(ApiGrids)

NextProver ==
    \/ NewProver
    \/ StartRound(RotShuffles)
    \/ RespondToAny

SpecProver == InitProver /\ [][NextProver]_vars

\* The Prover and the Verifier exchanging messages, call by call
Init == InitOn(ApiGrids)

Next ==
    \/ NewProver
    \/ NewVerifier
    \/ StartRound(RotShuffles)
    \/ ReceiveCommitment
    \/ RespondToIssued
    \/ VerifyResponse

Spec == Init /\ [][Next]_vars

\* ZKProtocol: run_round with every shuffle and every edge as the first round,
\* and run_proof(n) for n up to MaxRounds with some shuffles and some edges
ValidGrids ==
    {GridOf("Canon", 0), GridOf("Canon", 1), GridOf("Canon", 2),
     GridOf("Transposed", 1), GridOf("Relabelled", 1)}

\* one cell of the first or the last row overwritten
InvalidGrids ==
    {[GridOf("Canon", 1) EXCEPT ![x][y] = Guess(v)] :
        x \in {0, N - 1}, y \in ALL_POSITIONS, v \in Values}
    \ {GridOf("Canon", 1)}

ProtocolGrids == ValidGrids \cup InvalidGrids \cup {GridOf("Latin", 0)}

InitProtocol == InitOn(ProtocolGrids)

NextProtocol ==
    \/ NewProtocol
    \/ RunRound(AllShuffles, EveryEdge(verifier.edge_map), 1)
    \/ BeginProof(0..MaxRounds)
    \/ ProofRound(RotShuffles, SomeEdges(verifier.edge_map))
    \/ ProofReturn

SpecProtocol == InitProtocol /\ [][NextProtocol]_vars

\* the orchestrator driven by run_round alone, round after round
InitRunRound == InitOn(ProtocolGrids)

NextRunRound ==
    \/ NewProtocol
    \/ RunRound(RotShuffles, SomeEdges(verifier.edge_map), MaxRounds)

SpecRunRound == InitRunRound /\ [][NextRunRound]_vars

\* run_proof called again and again, on a new ZKProtocol each time it returned
\* true
Restart ==
    /\ proof.pc = "done"
    /\ proof.result = Ok(TRUE)
    /\ LET made == ZKProtocol_new(grid)
       IN  /\ ret' = made
           /\ prover' = IF made # Panic /\ made.tag = "Ok" THEN made.val.prover ELSE Absent
           /\ verifier' = IF made # Panic /\ made.tag = "Ok" THEN made.val.verifier ELSE Absent
    /\ call' = [op |-> "ZKProtocol::new"]
    /\ proof' = Idle
    /\ UNCHANGED grid

InitLive == InitOn(ApiGrids)

NextLive ==
    \/ NewProtocol
    \/ BeginProof(1..MaxRounds)
    \/ ProofRound(RotShuffles, SomeEdges(verifier.edge_map))
    \/ ProofReturn
    \/ Restart

SpecLive ==
    /\ InitLive
    /\ [][NextLive]_vars
    /\ WF_vars(ProofReturn)

\* Commitment::new and reveal on their own
CommitNodeIds == {0, N * N}

RECURSIVE ByteStrings(_)
ByteStrings(len) ==
    IF len = 0 THEN {<<>>}
    ELSE LET shorter == ByteStrings(len - 1)
         IN  shorter \cup {Append(x, b) : x \in {y \in shorter : Len(y) = len - 1}, b \in Bytes}

KeyInputs == {CommitmentKey(v, x) : v \in Values, x \in ByteStrings(2)}

CommitNew ==
    /\ call.op = "none"
    /\ \E v \in Values, node_id \in CommitNodeIds, nonce \in Nonces :
          LET made == Commitment_new(v, node_id, nonce)
          IN  /\ ret' = [commitment |-> made[1], key |-> made[2]]
              /\ call' = [op |-> "Commitment::new", value |-> v, node_id |-> node_id]
    /\ UNCHANGED <<grid, prover, verifier, proof>>

CommitReveal ==
    /\ call.op = "Commitment::new"
    /\ \E k \in KeyInputs :
          /\ ret' = reveal(ret.commitment, k)
          /\ call' = [op |-> "reveal", commitment |-> ret.commitment,
                      made_key |-> ret.key, key |-> k]
    /\ UNCHANGED <<grid, prover, verifier, proof>>

InitCommit == InitOn({GridOf("Canon", 0)})

NextCommit == CommitNew \/ CommitReveal

SpecCommit == InitCommit /\ [][NextCommit]_vars

\* ColourShuffle::new_random, apply and reverse_apply on their own
NewRandom ==
    /\ call.op = "none"
    /\ \E value_map \in AllShuffles :
          ret' = [value_map |-> value_map]
    /\ call' = [op |-> "ColourShuffle::new_random"]
    /\ UNCHANGED <<grid, prover, verifier, proof>>

\* the ColourShuffle the caller holds
shuffle_at_hand ==
    IF call.op = "ColourShuffle::new_random" THEN ret.value_map ELSE call.shuffle

ShuffleApply ==
    /\ call.op \in {"ColourShuffle::new_random", "apply", "reverse_apply"}
    /\ \E v \in Values :
          /\ ret' = [value |-> apply(shuffle_at_hand, v)]
          /\ call' = [op |-> "apply", shuffle |-> shuffle_at_hand, value |-> v]
    /\ UNCHANGED <<grid, prover, verifier, proof>>

ShuffleReverseApply ==
    /\ call.op \in {"ColourShuffle::new_random", "apply", "reverse_apply"}
    /\ \E v \in Values :
          /\ ret' = [value |-> reverse_apply(shuffle_at_hand, v)]
          /\ call' = [op |-> "reverse_apply", shuffle |-> shuffle_at_hand, value |-> v]
    /\ UNCHANGED <<grid, prover, verifier, proof>>

InitShuffle == InitOn({GridOf("Canon", 0)})

NextShuffle == NewRandom \/ ShuffleApply \/ ShuffleReverseApply

SpecShuffle == InitShuffle /\ [][NextShuffle]_vars

\* the Prover with a Verifier built on the Prover's edge map or on a made-up one
InitConfidence == InitOn(ApiGrids)

NextConfidence ==
    \/ NewProver
    \/ NewVerifier
    \/ NewTestVerifier
    \/ StartRound(RotShuffles)
    \/ ReceiveCommitment
    \/ RespondToIssued
    \/ VerifyResponse

SpecConfidence == InitConfidence /\ [][NextConfidence]_vars

\* ZKProtocol::calculate_rounds_needed on its own, for the inputs whose
\* result is MaxRoundsNeeded at most
CalculateRoundsNeeded ==
    /\ call.op = "none"
    /\ \E edges \in 0..MaxEdgeCount, confidence \in Confidences :
          LET rounds_needed == calculate_rounds_needed(edges, confidence)
          IN  /\ rounds_needed <= MaxRoundsNeeded
              /\ ret' = [rounds_needed |-> rounds_needed]
              /\ call' = [op |-> "calculate_rounds_needed", edge_count |-> edges,
                          confidence |-> confidence]
    /\ UNCHANGED <<grid, prover, verifier, proof>>

InitRounds == InitOn({GridOf("Canon", 0)})

NextRounds == CalculateRoundsNeeded

SpecRounds == InitRounds /\ [][NextRounds]_vars

----------------------------------------------------------------------------
(* Claims about the grid, the graph and Prover::new, under SpecGrid *)

rows_and_columns_valid(g) ==
    /\ \A row \in ALL_POSITIONS : is_valid(get_row(g, row))
    /\ \A col \in ALL_POSITIONS : is_valid(get_column(g, col))

\* C3: for a fully populated grid, is_valid_solution holds exactly when the
\* graph built from it by from_sudoku joins no two nodes with equal labels.
C3_ValidIffProperColouring ==
    (prover # Absent /\ fully_populated(grid))
        => (is_valid_solution(grid) <=> proper_colouring(prover.graph))

\* C3 witness: a graph built from a grid whose only duplicates are inside boxes,
\* so that only box edges join equal labels.
C3_Witness ==
    /\ prover # Absent
    /\ fully_populated(grid)
    /\ rows_and_columns_valid(grid)
    /\ ~is_valid_solution(grid)
    /\ ~proper_colouring(prover.graph)

C6_InvalidGridRejected ==
    (call.op = "Prover::new" /\ fully_populated(grid) /\ ~is_valid_solution(grid))
        => /\ ret = Err("SudokuError")
           /\ prover = Absent

----------------------------------------------------------------------------
(* Claims about ZKProtocol, under SpecProtocol *)

\* C1: completeness.  On a fully populated valid grid every round, whatever the
\* shuffle and the challenged edge, ends with verify_response returning Ok with
\* success = true: run_round returns it, every round the Verifier holds is
\* answered and verified, and run_proof returns Ok(true) after num_rounds rounds.
C1_Completeness ==
    (fully_populated(grid) /\ is_valid_solution(grid) /\ prover # Absent /\ verifier # Absent)
        => /\ Alive
           /\ Len(verifier.rounds) = Len(prover.rounds)
           /\ \A k \in 1..Len(verifier.rounds) :
                 /\ verifier.rounds[k].verified
                 /\ verifier.rounds[k].response # None
           /\ call.op = "run_round"
                 => ret = Ok([round_id |-> Len(verifier.rounds) - 1, success |-> TRUE])
           /\ proof.pc = "done"
                 => /\ proof.result = Ok(TRUE)
                    /\ Len(verifier.rounds) = proof.num_rounds

\* C1 witness: run_proof(MaxRounds) has returned Ok(true) on a valid grid with
\* hint cells, after MaxRounds verified rounds.
C1_Witness ==
    /\ is_valid_solution(grid)
    /\ \E x, y \in ALL_POSITIONS : grid[x][y] = Hint(Canon(x, y))
    /\ proof.pc = "done"
    /\ proof.num_rounds = MaxRounds
    /\ proof.result = Ok(TRUE)
    /\ Len(verifier.rounds) = MaxRounds
    /\ \A k \in 1..MaxRounds : verifier.rounds[k].verified

\* one round, run from the present state with this shuffle, these nonces and
\* this challenge edge, returns success = false
rejects(colour_shuffle, seed, challenge_edge) ==
    run_round([prover |-> prover, verifier |-> verifier],
              colour_shuffle, seed, challenge_edge).ret
        = Ok([round_id |-> Len(prover.rounds), success |-> FALSE])

\* C2: soundness.  When the Prover's labelling is not a proper colouring, then
\* in a round about to be run (the first after ZKProtocol::new, or the next of
\* run_proof), for every shuffle the Prover may sample, at least one of the |E|
\* edges the Verifier may draw makes the round return success = false.
C2_Soundness ==
    (/\ prover # Absent
     /\ verifier # Absent
     /\ Alive
     /\ call.op \in {"ZKProtocol::new", "run_proof"}
     /\ proof.pc # "done"
     /\ ~proper_colouring(prover.graph))
        => \A colour_shuffle \in AllShuffles, seed \in Seeds :
              \E challenge_edge \in DOMAIN verifier.edge_map :
                  rejects(colour_shuffle, seed, challenge_edge)

\* C2 witness: run_round on a graph that is not properly coloured has returned
\* success = false, the shuffle not being the identity.
C2_Witness ==
    /\ call.op = "run_round"
    /\ ~proper_colouring(prover.graph)
    /\ ret = Ok([round_id |-> 0, success |-> FALSE])
    /\ Len(prover.rounds) = 1
    /\ prover.rounds[1].colour_shuffle # ALL_VALUES
    /\ ~verifier.rounds[1].verified

----------------------------------------------------------------------------
(* Claim about repeated proofs, under SpecLive *)

\* the Verifier's latest draw, in a round of run_proof, was this edge
drew(edge) ==
    /\ verifier # Absent
    /\ proof.pc # "idle"
    /\ Len(verifier.rounds) >= 1
    /\ verifier.rounds[Len(verifier.rounds)].challenge_edge = edge

\* rounds are run again and again and the Verifier draws every edge again and again
FairDraw == \A edge \in 0..(MaxEdgeIds - 1) : []<>drew(edge)

----------------------------------------------------------------------------
(* Claim about commitments, under SpecCommit *)

\* C7: commitment binding.  reveal of the commitment made from (v, nonce) with
\* a key (v', nonce') succeeds exactly when the key is (v, nonce); the Revealed
\* commitment then carries that key and the hash and node_id of the Hidden
\* one; with any other key reveal returns InvalidReveal.
C7_CommitmentBinding ==
    call.op = "reveal"
        => /\ ret.tag = "Ok" <=> call.key = call.made_key
           /\ ret.tag = "Ok"
                 => /\ key(ret.val) = call.key
                    /\ ret.val.hash = call.commitment.hash
                    /\ ret.val.node_id = call.commitment.node_id
                    /\ ret.val.marker = "Revealed"
           /\ ret.tag # "Ok" => ret = Err("InvalidReveal")

\* C7 witness: a reveal with the right value and another nonce has failed.
C7_Witness ==
    /\ call.op = "reveal"
    /\ call.key.value = call.made_key.value
    /\ call.key.nonce # call.made_key.nonce
    /\ ret = Err("InvalidReveal")

\* C7 second case, reached as well: a reveal with the key made has succeeded.
C7_RevealedReached ==
    /\ call.op = "reveal"
    /\ call.key = call.made_key
    /\ ret.tag = "Ok"

----------------------------------------------------------------------------
(* Claims about verify_response, under Spec *)

\* the response names the Verifier's current round, its challenged edge and
\* (exact = TRUE) the endpoints of that edge in the order of the edge map
answers_challenge(v, response, exact) ==
    /\ response.round_id = v.current_round
    /\ response.round_id < Len(v.rounds)
    /\ v.rounds[response.round_id + 1].challenge_edge = response.edge
    /\ response.edge \in DOMAIN v.edge_map
    /\ exact <=> (<<response.node1.node_idx, response.node2.node_idx>>
                     = v.edge_map[response.edge])

\* the value the commitment of node n in round round_id was made from differs
\* from the one the key carries
value_differs(v, round_id, reveal_) ==
    v.rounds[round_id + 1].commitment.commitments[reveal_.node_idx].hash.digest[1]
        # to_numeric(reveal_.node_key.value)

\* C8: a response to the outstanding challenge with the right round, edge and
\* endpoints and a key whose value differs from the committed one, for node1
\* or node2, gets InvalidReveal; the round stays unverified, no response recorded.
C8_TamperedValue ==
    [][(/\ call'.op = "verify_response"
        /\ verifier # Absent
        /\ answers_challenge(verifier, call'.arg, TRUE)
        /\ verifier.rounds[call'.arg.round_id + 1].response = None
        /\ \/ value_differs(verifier, call'.arg.round_id, call'.arg.node1)
           \/ value_differs(verifier, call'.arg.round_id, call'.arg.node2))
       => (/\ ret' = Err("InvalidReveal")
           /\ verifier' = verifier
           /\ verifier'.rounds[call'.arg.round_id + 1].response = None
           /\ ~verifier'.rounds[call'.arg.round_id + 1].verified)]_vars

\* C8 witness: a response whose node2 key alone carries another value got
\* InvalidReveal, and the round is unverified with no response.
C8_Witness ==
    /\ call.op = "verify_response"
    /\ answers_challenge(verifier, call.arg, TRUE)
    /\ ~value_differs(verifier, call.arg.round_id, call.arg.node1)
    /\ value_differs(verifier, call.arg.round_id, call.arg.node2)
    /\ ret = Err("InvalidReveal")
    /\ verifier.rounds[call.arg.round_id + 1].response = None
    /\ ~verifier.rounds[call.arg.round_id + 1].verified

\* C9: a response to the outstanding challenge whose node pair is not exactly
\* the pair of the edge map, in that order, gets NodeMismatch, valid keys or
\* not, and the Verifier's rounds are unchanged.
C9_WrongEndpoints ==
    [][(/\ call'.op = "verify_response"
        /\ verifier # Absent
        /\ answers_challenge(verifier, call'.arg, FALSE))
       => (/\ ret' = Err("NodeMismatch")
           /\ verifier'.rounds = verifier.rounds
           /\ verifier' = verifier)]_vars

\* C9 witness: the honest response with its endpoints swapped, each key opening
\* the commitment of its node, got NodeMismatch.
C9_Witness ==
    /\ call.op = "verify_response"
    /\ answers_challenge(verifier, call.arg, FALSE)
    /\ <<call.arg.node2.node_idx, call.arg.node1.node_idx>> = verifier.edge_map[call.arg.edge]
    /\ \A r \in {call.arg.node1, call.arg.node2} :
          reveal(verifier.rounds[call.arg.round_id + 1].commitment.commitments[r.node_idx],
                 r.node_key).tag = "Ok"
    /\ ret = Err("NodeMismatch")
    /\ verifier.rounds[call.arg.round_id + 1].response = None

----------------------------------------------------------------------------
(* Claim about respond_to_challenge, under SpecProver *)

\* C10: respond_to_challenge with a round_id that is not the Prover's current
\* round returns RoundMismatch and leaves the Prover, its rounds and their
\* challenged edges as they were; so does a challenge for a round before the
\* last one opened, and one for round 1 when only round 0 is open.
C10_RoundMismatch ==
    [][(/\ call'.op = "respond_to_challenge"
        /\ prover # Absent
        /\ \/ call'.arg.round_id # prover.current_round
           \/ Len(prover.rounds) >= 1 /\ call'.arg.round_id # Len(prover.rounds) - 1)
       => (/\ ret' = Err("RoundMismatch")
           /\ prover'.rounds = prover.rounds
           /\ prover' = prover)]_vars

\* C10 witness: with rounds 0 and 1 open, a challenge for round 0 on an edge
\* not yet revealed was answered RoundMismatch.
C10_Witness ==
    /\ call.op = "respond_to_challenge"
    /\ Len(prover.rounds) = 2
    /\ call.arg.round_id = 0
    /\ call.arg.edge \in DOMAIN prover.graph.edges
    /\ ~contains(prover.rounds[1].challenged_edges, call.arg.edge)
    /\ ret = Err("RoundMismatch")

\* C10 second case, reached as well: round 0 alone open, a challenge for round 1.
C10_DesyncReached ==
    /\ call.op = "respond_to_challenge"
    /\ Len(prover.rounds) = 1
    /\ call.arg.round_id = 1
    /\ ret = Err("RoundMismatch")

----------------------------------------------------------------------------
(* Claims about respond_to_challenge and start_round, under SpecProver *)

\* no edge id occurs twice in the challenged edges of a round
no_edge_twice(p) ==
    \A k \in 1..Len(p.rounds) :
        \A i, j \in 1..Len(p.rounds[k].challenged_edges) :
            i # j => p.rounds[k].challenged_edges[i] # p.rounds[k].challenged_edges[j]

\* C11: a challenge for the current round on an edge already answered in that
\* round gets AlreadyRevealed and leaves the Prover, its challenged edges
\* included, as it was; after any call no round holds an edge id twice.
C11_AlreadyRevealed ==
    [][(call'.op = "respond_to_challenge" /\ prover # Absent)
       => /\ (/\ call'.arg.round_id = prover.current_round
              /\ call'.arg.round_id < Len(prover.rounds)
              /\ contains(prover.rounds[call'.arg.round_id + 1].challenged_edges,
                          call'.arg.edge))
                => (ret' = Err("AlreadyRevealed") /\ prover' = prover)
          /\ no_edge_twice(prover')]_vars

\* C11 witness: the edge answered first in the current round was challenged
\* again, after another edge, and the answer was AlreadyRevealed.
C11_Witness ==
    /\ call.op = "respond_to_challenge"
    /\ ret = Err("AlreadyRevealed")
    /\ call.arg.round_id = prover.current_round
    /\ Len(prover.rounds[call.arg.round_id + 1].challenged_edges) = 2
    /\ prover.rounds[call.arg.round_id + 1].challenged_edges[1] = call.arg.edge

\* C12: a challenge for the current round on an edge id that is no edge of the
\* graph gets EdgeNotFound with that id and leaves the Prover as it was, so
\* that the same challenge sent again gets the same answer.
C12_EdgeNotFound ==
    [][(/\ call'.op = "respond_to_challenge"
        /\ prover # Absent
        /\ call'.arg.round_id = prover.current_round
        /\ call'.arg.round_id < Len(prover.rounds)
        /\ call'.arg.edge \notin DOMAIN prover.graph.edges)
       => (/\ ret' = [tag |-> "Err", err |-> "EdgeNotFound", edge |-> call'.arg.edge]
           /\ prover' = prover
           /\ respond_to_challenge(prover', call'.arg) = [st |-> prover', ret |-> ret'])]_vars

\* C12 witness: an edge id that is no edge was challenged in a round that has
\* already answered challenges, and the answer was EdgeNotFound.
C12_Witness ==
    /\ call.op = "respond_to_challenge"
    /\ call.arg.round_id = prover.current_round
    /\ call.arg.round_id < Len(prover.rounds)
    /\ call.arg.edge \notin DOMAIN prover.graph.edges
    /\ Len(prover.rounds[call.arg.round_id + 1].challenged_edges) >= 1
    /\ ret = [tag |-> "Err", err |-> "EdgeNotFound", edge |-> call.arg.edge]

----------------------------------------------------------------------------
(* Claims about receive_commitment, under Spec *)

\* C13: receive_commitment with a round id other than the number of rounds
\* the Verifier has recorded, higher or lower, returns RoundMismatch and
\* leaves the Verifier, its rounds and its current round, as it was.
C13_CommitmentRoundMismatch ==
    [][(/\ call'.op = "receive_commitment"
        /\ verifier # Absent
        /\ call'.arg.round_id # Len(verifier.rounds))
       => (/\ ret' = Err("RoundMismatch")
           /\ verifier'.rounds = verifier.rounds
           /\ verifier'.current_round = verifier.current_round
           /\ verifier' = verifier)]_vars

\* C13 witness: a commitment repeating the id of a round already recorded
\* got RoundMismatch.
C13_Witness ==
    /\ call.op = "receive_commitment"
    /\ Len(verifier.rounds) >= 1
    /\ call.arg.round_id < Len(verifier.rounds)
    /\ DOMAIN verifier.edge_map # {}
    /\ ret = Err("RoundMismatch")

\* C13 second case, reached as well: a round id that is too high.
C13_TooHighReached ==
    /\ call.op = "receive_commitment"
    /\ call.arg.round_id > Len(verifier.rounds)
    /\ ret = Err("RoundMismatch")

\* C14: a Verifier with an empty edge map answers receive_commitment with the
\* expected round id by NoEdges; no round is recorded, nothing else changes.
C14_NoEdges ==
    [][(/\ call'.op = "receive_commitment"
        /\ verifier # Absent
        /\ DOMAIN verifier.edge_map = {}
        /\ call'.arg.round_id = Len(verifier.rounds))
       => (/\ ret' = Err("NoEdges")
           /\ verifier'.rounds = verifier.rounds
           /\ verifier' = verifier)]_vars

\* C14 witness: the Verifier built with an empty edge map received the
\* commitment of round 0 and answered NoEdges, with no round recorded.
C14_Witness ==
    /\ call.op = "receive_commitment"
    /\ verifier.edge_map = <<>>
    /\ call.arg.round_id = 0
    /\ verifier.rounds = <<>>
    /\ ret = Err("NoEdges")

\* C19: a challenge returned by receive_commitment carries the round id of
\* the commitment received and an edge id that is a key of the edge map; the
\* round recorded, the last one, holds that commitment and that edge, with
\* no response and unverified, and becomes the current round.
C19_ChallengeOfCommitment ==
    [][(call'.op = "receive_commitment" /\ verifier # Absent /\ ret'.tag = "Ok")
       => (/\ ret'.val.round_id = call'.arg.round_id
           /\ ret'.val.edge \in DOMAIN verifier'.edge_map
           /\ verifier'.edge_map = verifier.edge_map
           /\ verifier'.rounds =
                 Append(verifier.rounds,
                        [commitment |-> call'.arg, challenge_edge |-> ret'.val.edge,
                         response |-> None, verified |-> FALSE])
           /\ verifier'.current_round = call'.arg.round_id)]_vars

\* C19 witness: the challenge of the second round has been issued.
C19_Witness ==
    /\ call.op = "receive_commitment"
    /\ ret.tag = "Ok"
    /\ ret.val.round_id = 1
    /\ Len(verifier.rounds) = 2
    /\ verifier.rounds[2].challenge_edge = ret.val.edge
    /\ ret.val.edge \in DOMAIN verifier.edge_map

----------------------------------------------------------------------------
(* Claims about the checks and the verdict of verify_response, under Spec *)

\* C15: verify_response returns RoundMismatch and leaves the Verifier and
\* every round of it as they were when the response's round id is not the
\* current round, or names a round the Verifier has not recorded (none yet
\* received), or when its edge is not the challenge edge of that round.
C15_ResponseRoundMismatch ==
    [][(/\ call'.op = "verify_response"
        /\ verifier # Absent
        /\ \/ call'.arg.round_id # verifier.current_round
           \/ call'.arg.round_id >= Len(verifier.rounds)
           \/ verifier.rounds[call'.arg.round_id + 1].challenge_edge # call'.arg.edge)
       => (/\ ret' = Err("RoundMismatch")
           /\ verifier'.rounds = verifier.rounds
           /\ verifier' = verifier)]_vars

\* C15 witness: a response for round 0, right in its edge, nodes and keys, was
\* sent when round 1 was current and got RoundMismatch.
C15_Witness ==
    /\ call.op = "verify_response"
    /\ Len(verifier.rounds) = 2
    /\ verifier.current_round = 1
    /\ call.arg.round_id = 0
    /\ verifier.rounds[1].challenge_edge = call.arg.edge
    /\ <<call.arg.node1.node_idx, call.arg.node2.node_idx>> = verifier.edge_map[call.arg.edge]
    /\ ret = Err("RoundMismatch")

\* C15 further cases, reached as well: a future round, a response before any
\* commitment was received, and another edge than the one challenged.
C15_FutureReached ==
    /\ call.op = "verify_response"
    /\ Len(verifier.rounds) >= 1
    /\ call.arg.round_id > verifier.current_round
    /\ ret = Err("RoundMismatch")

C15_NoRoundReached ==
    /\ call.op = "verify_response"
    /\ verifier.rounds = <<>>
    /\ call.arg.round_id = verifier.current_round
    /\ ret = Err("RoundMismatch")

C15_WrongEdgeReached ==
    /\ call.op = "verify_response"
    /\ call.arg.round_id = verifier.current_round
    /\ call.arg.round_id < Len(verifier.rounds)
    /\ verifier.rounds[call.arg.round_id + 1].challenge_edge # call.arg.edge
    /\ call.arg.edge \in DOMAIN verifier.edge_map
    /\ ret = Err("RoundMismatch")

\* both keys of the response open the commitments of their nodes in the round
keys_open(v, response) ==
    \A r \in {response.node1, response.node2} :
        /\ r.node_idx \in DOMAIN v.rounds[response.round_id + 1].commitment.commitments
        /\ verify_hash(v.rounds[response.round_id + 1].commitment.commitments[r.node_idx],
                       r.node_key)

\* C16: for a response that matches the outstanding challenge and whose keys
\* open the committed hashes, verify_response returns Ok with the round id and
\* success = (the two revealed values differ), records the response in the
\* round and sets verified to success; equal values give Ok, success = false.
C16_Verdict ==
    [][(/\ call'.op = "verify_response"
        /\ verifier # Absent
        /\ answers_challenge(verifier, call'.arg, TRUE)
        /\ keys_open(verifier, call'.arg))
       => LET success == call'.arg.node1.node_key.value # call'.arg.node2.node_key.value
          IN  /\ ret' = Ok([round_id |-> call'.arg.round_id, success |-> success])
              /\ verifier' =
                    [verifier EXCEPT
                        !.rounds[call'.arg.round_id + 1].response = Some(call'.arg),
                        !.rounds[call'.arg.round_id + 1].verified = success]]_vars

\* C16 witness: two equal values were revealed; the answer was Ok with
\* success = false, the response is recorded and the round is not verified.
C16_Witness ==
    /\ call.op = "verify_response"
    /\ answers_challenge(verifier, call.arg, TRUE)
    /\ keys_open(verifier, call.arg)
    /\ call.arg.node1.node_key.value = call.arg.node2.node_key.value
    /\ ret = Ok([round_id |-> call.arg.round_id, success |-> FALSE])
    /\ verifier.rounds[call.arg.round_id + 1].response = Some(call.arg)
    /\ ~verifier.rounds[call.arg.round_id + 1].verified

\* C16 second case, reached as well: two different values, success = true.
C16_SuccessReached ==
    /\ call.op = "verify_response"
    /\ answers_challenge(verifier, call.arg, TRUE)
    /\ ret = Ok([round_id |-> call.arg.round_id, success |-> TRUE])
    /\ verifier.rounds[call.arg.round_id + 1].response = Some(call.arg)
    /\ verifier.rounds[call.arg.round_id + 1].verified

----------------------------------------------------------------------------
(* Claim about run_proof, under SpecProtocol *)

\* the first k rounds the Verifier holds are verified
verified_up_to(k) == \A i \in 1..k : verifier.rounds[i].verified

\* the errors a round could return
RoundErrors == {Err("RoundMismatch"), Err("NoEdges"), Err("AlreadyRevealed"),
                Err("NodeMismatch"), Err("InvalidReveal")}

\* C17: run_proof(n) runs at most n rounds.  While it loops, round i is being
\* run after i - 1 verified rounds, i <= n + 1.  It returns Ok(false) right
\* after the first rejected round, which is the last round run; it returns
\* Ok(true) exactly when n rounds were run and all are verified; an error of a
\* round would be returned as that error.
C17_RunProof ==
    /\ proof.pc = "loop"
          => /\ proof.round = Len(verifier.rounds) + 1
             /\ proof.round <= proof.num_rounds + 1
             /\ verified_up_to(Len(verifier.rounds))
             /\ \A e \in RoundErrors :
                   proof_after(proof, e) =
                       [pc |-> "done", num_rounds |-> proof.num_rounds,
                        round |-> proof.round, result |-> e]
    /\ proof.pc = "done"
          => /\ Len(verifier.rounds) <= proof.num_rounds
             /\ Len(prover.rounds) = Len(verifier.rounds)
             /\ proof.result \in {Ok(TRUE), Ok(FALSE)}
             /\ proof.result = Ok(FALSE)
                   => /\ Len(verifier.rounds) >= 1
                      /\ proof.round = Len(verifier.rounds)
                      /\ ~verifier.rounds[Len(verifier.rounds)].verified
                      /\ verified_up_to(Len(verifier.rounds) - 1)
             /\ proof.result = Ok(TRUE)
                   <=> /\ Len(verifier.rounds) = proof.num_rounds
                       /\ verified_up_to(Len(verifier.rounds))

\* C17 witness: run_proof(MaxRounds) returned Ok(false) after its first round,
\* which was rejected, with no second round run.
C17_Witness ==
    /\ proof.pc = "done"
    /\ proof.num_rounds = MaxRounds
    /\ proof.result = Ok(FALSE)
    /\ Len(verifier.rounds) = 1
    /\ Len(prover.rounds) = 1
    /\ ~verifier.rounds[1].verified

\* C17 further cases, reached as well: Ok(true) after n rounds, and
\* run_proof(0), which runs no round and returns Ok(true).
C17_TrueReached ==
    /\ proof.pc = "done"
    /\ proof.num_rounds = MaxRounds
    /\ proof.result = Ok(TRUE)
    /\ ~is_valid_solution(grid)

C17_NoRoundReached ==
    /\ proof.pc = "done"
    /\ proof.num_rounds = 0
    /\ proof.result = Ok(TRUE)
    /\ verifier.rounds = <<>>

----------------------------------------------------------------------------
(* Claim about round ids, under SpecProver *)

\* C18: round ids are monotonic.  A start_round call on a Prover holding k - 1
\* rounds (the k-th call: only start_round adds a round, and it adds one)
\* returns round_id k - 1 and makes it the current round; respond_to_challenge
\* changes neither the number of rounds nor the current round; and a Prover
\* with rounds has the index of the last one as its current round.
C18_MonotonicRoundIds ==
    [][ /\ call'.op = "start_round"
           => /\ ret'.round_id = Len(prover.rounds)
              /\ prover'.current_round = ret'.round_id
              /\ Len(prover'.rounds) = Len(prover.rounds) + 1
        /\ call'.op = "respond_to_challenge"
           => /\ Len(prover'.rounds) = Len(prover.rounds)
              /\ prover'.current_round = prover.current_round
        /\ (prover' # Absent /\ prover'.rounds # <<>>)
           => prover'.current_round = Len(prover'.rounds) - 1
      ]_vars

\* C18 witness: the second start_round call returned round_id 1, after a
\* challenge of round 0 was answered in between.
C18_Witness ==
    /\ call.op = "start_round"
    /\ Len(prover.rounds) = 2
    /\ ret.round_id = 1
    /\ prover.current_round = 1
    /\ prover.rounds[1].challenged_edges # <<>>

----------------------------------------------------------------------------
(* Claim about what an edge reveal discloses, under SpecProver *)

\* the ordered pair of values respond_to_challenge reveals for edge in the
\* round start_round opens on p with colour_shuffle
revealed_pair(p, colour_shuffle, edge) ==
    LET started == start_round(p, colour_shuffle, 0).st
        response == respond_to_challenge(started, [round_id |-> started.current_round,
                                                   edge |-> edge]).ret.val
    IN  <<response.node1.node_key.value, response.node2.node_key.value>>

\* the edges of p's graph whose two nodes have distinct labels
distinct_edges(p) ==
    {e \in DOMAIN p.graph.edges :
        p.graph.nodes[p.graph.edges[e][1]] # p.graph.nodes[p.graph.edges[e][2]]}

\* C20: an edge reveal never discloses the value.  For a Prover about to start
\* a round and every edge joining two nodes with distinct labels, over all
\* permutations of the values the revealed ordered pair takes each ordered
\* pair of distinct values for the same number of permutations, (N - 2)!,
\* whatever the labels under the edge are, and never a pair of equal values.
C20_RevealUniform ==
    (/\ prover # Absent
     /\ call.op \in {"Prover::new", "start_round"}
     /\ Len(prover.rounds) < MaxRounds)
    => LET pairs == [colour_shuffle \in AllShuffles |->
                        [e \in distinct_edges(prover) |->
                            revealed_pair(prover, colour_shuffle, e)]]
       IN  \A e \in distinct_edges(prover) :
           \A c, d \in Values :
              Cardinality({colour_shuffle \in AllShuffles : pairs[colour_shuffle][e] = <<c, d>>})
                  = IF c = d THEN 0
                    ELSE Cardinality(AllShuffles) \div (N * (N - 1))

\* C20 witness: a challenge was answered in a round with a shuffle that is not
\* the identity: the two revealed values differ from each other and from the
\* labels of the two nodes, which differ too.
C20_Witness ==
    /\ call.op = "respond_to_challenge"
    /\ ret # Panic
    /\ ret.tag = "Ok"
    /\ LET label1 == prover.graph.nodes[ret.val.node1.node_idx]
           label2 == prover.graph.nodes[ret.val.node2.node_idx]
       IN  /\ label1 # label2
           /\ ret.val.node1.node_key.value # ret.val.node2.node_key.value
           /\ ret.val.node1.node_key.value # label1
           /\ ret.val.node2.node_key.value # label2

----------------------------------------------------------------------------
(* Claim about ColourShuffle, under SpecShuffle *)

\* f maps the values one-to-one onto the values
bijection(f) ==
    /\ \A v \in Values : f[v] \in Values
    /\ \A v, w \in Values : f[v] = f[w] => v = w
    /\ \A w \in Values : \E v \in Values : f[v] = w

\* C21: permutation round trip.  Every ColourShuffle new_random makes is a
\* bijection on the values, and so is its reverse; the value apply returned
\* is taken back to the argument by reverse_apply, and the value
\* reverse_apply returned is taken back to the argument by apply.
C21_RoundTrip ==
    /\ call.op = "ColourShuffle::new_random"
          => /\ bijection([v \in Values |-> apply(ret.value_map, v)])
             /\ bijection([v \in Values |-> reverse_apply(ret.value_map, v)])
    /\ call.op = "apply"
          => reverse_apply(call.shuffle, ret.value) = call.value
    /\ call.op = "reverse_apply"
          => apply(call.shuffle, ret.value) = call.value

\* C21 witness: apply returned a value other than its argument under a
\* shuffle that is not its own inverse there.
C21_Witness ==
    /\ call.op = "apply"
    /\ ret.value # call.value
    /\ apply(call.shuffle, ret.value) # call.value

\* C21 second case, reached as well: reverse_apply returned a value other
\* than its argument.
C21_ReverseReached ==
    /\ call.op = "reverse_apply"
    /\ ret.value # call.value
    /\ reverse_apply(call.shuffle, ret.value) # call.value

----------------------------------------------------------------------------
(* Claims about calculate_rounds_needed, under SpecRounds *)

\* 1 - (1 - 1 / edge_count)^rounds >= confidence / 100, over the common
\* denominator 100 * edge_count^rounds
confidence_reached(edges, rounds, confidence) ==
    (pow(edges, rounds) - pow(edges - 1, rounds)) * 100
        >= confidence * pow(edges, rounds)

\* C22: confidence formula.  For every edge count |E| >= 1 and every target
\* 0 < c < 100 the round count N that calculate_rounds_needed(|E|, c) returns
\* satisfies 1 - (1 - 1/|E|)^N >= c/100.
C22_ConfidenceFormula ==
    (call.op = "calculate_rounds_needed" /\ call.edge_count >= 1)
        => confidence_reached(call.edge_count, ret.rounds_needed, call.confidence)

\* C22 from two edges on, where the formula is reached, and with the least
\* such round count
C22_FromTwoEdges ==
    (call.op = "calculate_rounds_needed" /\ call.edge_count >= 2)
        => /\ confidence_reached(call.edge_count, ret.rounds_needed, call.confidence)
           /\ ~confidence_reached(call.edge_count, ret.rounds_needed - 1, call.confidence)

\* C23: calculate_rounds_needed returns at least one round for every
\* confidence 0 < c < 100 and every edge count |E| >= 1.
C23_AtLeastOneRound ==
    (call.op = "calculate_rounds_needed" /\ call.edge_count >= 1)
        => ret.rounds_needed >= 1

\* C23 from two edges on: at least one round
C23_FromTwoEdges ==
    (call.op = "calculate_rounds_needed" /\ call.edge_count >= 2)
        => ret.rounds_needed >= 1

----------------------------------------------------------------------------
(* Claim about confidence_level, under SpecConfidence *)

\* v without its pending and rejected rounds
verified_only(v) ==
    LET is_verified(round) == round.verified
    IN  [v EXCEPT !.rounds = SelectSeq(@, is_verified)]

\* what the claim says of confidence_level in one state of the Verifier
confidence_of_verified(v) ==
    /\ confidence_level(v) = confidence_level(verified_only(v))
    /\ (count_verified(v.rounds) = 0 \/ DOMAIN v.edge_map = {})
          => confidence_level(v) = <<0, 1>>
    /\ ~less(<<100, 1>>, confidence_level(v))

\* what the claim says of confidence_level over one step of the Verifier, an
\* additional verified round strictly increasing it when the edge map has
\* min_edges edges at least
confidence_step(v, w, min_edges) ==
    /\ count_verified(w.rounds) >= count_verified(v.rounds)
    /\ count_verified(w.rounds) = count_verified(v.rounds)
          => confidence_level(w) = confidence_level(v)
    /\ (count_verified(w.rounds) > count_verified(v.rounds)
        /\ Cardinality(DOMAIN v.edge_map) >= min_edges)
          => less(confidence_level(v), confidence_level(w))

\* C24 as amended: confidence_level depends only on the number of verified
\* rounds: it is 0 when there is none or the edge map is empty, pending and
\* rejected rounds do not change it, it never exceeds 100, and each
\* additional verified round strictly increases it when the edge map has two
\* edges at least; with one edge it is 100 from the first verified round on.
C24_ConfidenceLevel ==
    [][(verifier # Absent /\ verifier' # Absent)
          => /\ confidence_of_verified(verifier')
             /\ confidence_step(verifier, verifier', 2)
             /\ (count_verified(verifier'.rounds) > 0
                 /\ Cardinality(DOMAIN verifier'.edge_map) = 1)
                   => confidence_level(verifier') = <<100, 1>>
      ]_vars

\* C24 as stated: the same, each additional verified round strictly
\* increasing confidence_level whatever the edge map is.
C24_StrictlyIncreasing ==
    [][(verifier # Absent /\ verifier' # Absent)
          => /\ confidence_of_verified(verifier')
             /\ confidence_step(verifier, verifier', 0)
      ]_vars

\* C24 witness: on an edge map of several edges a second round was verified
\* after a first verified one, and the confidence is between 0 and 100.
C24_Witness ==
    /\ verifier # Absent
    /\ call.op = "verify_response"
    /\ Cardinality(DOMAIN verifier.edge_map) >= 2
    /\ count_verified(verifier.rounds) = 2
    /\ less(<<0, 1>>, confidence_level(verifier))
    /\ less(confidence_level(verifier), <<100, 1>>)

\* C24 further cases, reached as well: a rejected round beside a verified one,
\* and two verified rounds on an edge map of one edge.
C24_RejectedReached ==
    /\ verifier # Absent
    /\ call.op = "verify_response"
    /\ Len(verifier.rounds) = 2
    /\ count_verified(verifier.rounds) = 1
    /\ verifier.rounds[2].response # None

C24_OneEdgeReached ==
    /\ verifier # Absent
    /\ Cardinality(DOMAIN verifier.edge_map) = 1
    /\ count_verified(verifier.rounds) = 2

----------------------------------------------------------------------------
(* Claim about the commitments of a round, under SpecProver *)

\* C25: start_round returns exactly one Hidden commitment for every node of
\* the graph, the N * N cell nodes and the N clique nodes, keyed and tagged
\* with the node's id; the round has one permutation, and the key the Prover
\* retains for node n opens commitment n to the permuted label of n.
C25_CommitmentPerNode ==
    call.op = "start_round"
        => LET round == prover.rounds[ret.round_id + 1]
           IN  /\ DOMAIN ret.commitments = NodeIds
               /\ DOMAIN ret.commitments = DOMAIN prover.graph.nodes
               /\ Cardinality(DOMAIN ret.commitments) = N * N + N
               /\ DOMAIN round.commitment_keys = NodeIds
               /\ round.colour_shuffle \in AllShuffles
               /\ \A n \in NodeIds :
                     /\ ret.commitments[n].node_id = n
                     /\ ret.commitments[n].marker = "Hidden"
                     /\ ret.commitments[n].key = None
                     /\ LET opened == reveal(ret.commitments[n], round.commitment_keys[n])
                        IN  /\ opened.tag = "Ok"
                            /\ key(opened.val).value =
                                  apply(round.colour_shuffle, prover.graph.nodes[n])

\* C25 witness: a second round was started with a shuffle that moves every
\* value, so that each commitment opens to a value other than the label.
C25_Witness ==
    /\ call.op = "start_round"
    /\ ret.round_id = 1
    /\ \A n \in NodeIds :
          prover.rounds[2].commitment_keys[n].value # prover.graph.nodes[n]

----------------------------------------------------------------------------
(* Claims about the graph from_sudoku builds, under SpecGrid *)

\* some edge of graph has the endpoints a and b, in either order
joined(graph, a, b) ==
    \E e \in DOMAIN graph.edges :
        graph.edges[e] = <<a, b>> \/ graph.edges[e] = <<b, a>>

\* C26: the graph built by from_sudoku has an edge between every pair of the
\* N clique nodes, for every input grid.
C26_CliqueEdges ==
    prover # Absent
        => \A i, j \in 0..(N - 1) :
              i # j => joined(prover.graph, clique_nodes(i), clique_nodes(j))

\* C26, what the code builds: no edge joins two clique nodes.
C26_NoCliqueEdge ==
    prover # Absent
        => \A i, j \in 0..(N - 1) :
              ~joined(prover.graph, clique_nodes(i), clique_nodes(j))

\* C27: the graph is free of multi-edges: no two distinct edge ids of the
\* graph, or of the edge map derived from it, have the same unordered pair of
\* endpoints.
C27_NoMultiEdge ==
    call.op = "Prover::new" /\ prover # Absent
        => \A e1, e2 \in DOMAIN ret.val.edge_map :
              e1 # e2 =>
                 {ret.val.edge_map[e1][1], ret.val.edge_map[e1][2]}
                    # {ret.val.edge_map[e2][1], ret.val.edge_map[e2][2]}

\* C27, what the code builds: each of the pairs of cells that share a box and
\* a row or a column is joined by two edges, one added for the row or column
\* and one for the box.
C27_DoubleEdges ==
    call.op = "Prover::new" /\ prover # Absent
        => Cardinality(DOMAIN ret.val.edge_map)
              - Cardinality({ret.val.edge_map[e] : e \in DOMAIN ret.val.edge_map})
           = N * BoxSize * BoxSize * (BoxSize - 1)

\* C28: every cell holding Hint(v) is joined by an edge to each of the clique
\* nodes whose label differs from v and not to the clique node labelled v, and
\* a cell that is not a hint is joined to no clique node.
C28_HintEdges ==
    prover # Absent
        => \A x, y \in ALL_POSITIONS : \A i \in 0..(N - 1) :
              joined(prover.graph, cell_nodes(x, y), clique_nodes(i))
                 <=> /\ grid[x][y].kind = "Hint"
                     /\ prover.graph.nodes[clique_nodes(i)] # grid[x][y].value

\* C28 witness: a graph built from a grid with hints and guesses, a hint among
\* them whose value is another than the one the base grid had there.
C28_Witness ==
    /\ prover # Absent
    /\ \E x, y \in ALL_POSITIONS : grid[x][y].kind = "Guess"
    /\ \E x, y \in ALL_POSITIONS :
          /\ grid[x][y].kind = "Hint"
          /\ grid[x][y].value # Canon(x, y)
          /\ joined(prover.graph, cell_nodes(x, y), clique_nodes(to_index(Canon(x, y))))


\* the colourings tried on graph: the cells coloured by their labels renamed
\* one-to-one, the clique nodes coloured in any way
Colourings(graph) ==
    {[n \in NodeIds |-> IF n < N * N THEN apply(cell_colours, graph.nodes[n])
                        ELSE clique_colours[n - N * N]] :
        cell_colours \in AllShuffles, clique_colours \in [0..(N - 1) -> Values]}

\* colouring gives the two endpoints of no edge of graph the same colour
proper(graph, colouring) ==
    \A e \in DOMAIN graph.edges :
        colouring[graph.edges[e][1]] # colouring[graph.edges[e][2]]

\* every hint cell has the colour of the clique node labelled with its value
hints_forced(g, colouring) ==
    \A x, y \in ALL_POSITIONS :
        g[x][y].kind = "Hint"
           => colouring[cell_nodes(x, y)] = colouring[clique_nodes(to_index(g[x][y].value))]

\* the clique nodes have N distinct colours
clique_distinct(colouring) ==
    \A i, j \in 0..(N - 1) :
        i # j => colouring[clique_nodes(i)] # colouring[clique_nodes(j)]

\* C29: in every proper N-colouring of the constructed graph each cell given
\* as Hint(v) has the colour of the clique node labelled v, and the N clique
\* nodes have N distinct colours.
C29_HintsForced ==
    prover # Absent
        => \A colouring \in Colourings(prover.graph) :
              proper(prover.graph, colouring)
                 => /\ clique_distinct(colouring)
                    /\ hints_forced(grid, colouring)

\* C29 with the clique edges of C26 supplied: among the colourings that give
\* the clique nodes distinct colours, the proper ones force the hints.
C29_ForcedByClique ==
    (prover # Absent /\ grid \in ApiGrids \cup BaseGrids)
        => \A colouring \in Colourings(prover.graph) :
              (clique_distinct(colouring) /\ proper(prover.graph, colouring))
                 => hints_forced(grid, colouring)

\* C29, reached: a proper colouring of the graph of a valid grid with hints
\* that gives two clique nodes one colour and a hint cell another colour than
\* its clique node has.
C29_UnforcedReached ==
    /\ prover # Absent
    /\ is_valid_solution(grid)
    /\ \E x, y \in ALL_POSITIONS : grid[x][y].kind = "Hint"
    /\ \E colouring \in Colourings(prover.graph) :
          /\ proper(prover.graph, colouring)
          /\ ~clique_distinct(colouring)
          /\ ~hints_forced(grid, colouring)


\* g with the value of every guess cell moved on by shift
guesses_shifted(g, shift) ==
    [x \in ALL_POSITIONS |-> [y \in ALL_POSITIONS |->
        IF g[x][y].kind = "Guess"
        THEN Guess(from_index((to_index(g[x][y].value) + shift) % N))
        ELSE g[x][y]]]

\* the grids compared with g: the same hint cells, and other guess values in
\* every guess cell or in one guess cell
GuessVariants(g) ==
    {guesses_shifted(g, shift) : shift \in 1..(N - 1)}
    \cup {[g EXCEPT ![point[1]][point[2]] = Guess(v)] :
             point \in {q \in ALL_POSITIONS \X ALL_POSITIONS : g[q[1]][q[2]].kind = "Guess"},
             v \in Values}

\* C30: the edge map handed to the Verifier does not depend on the guess
\* values: a fully populated grid with the same hint cells and other guess
\* values yields the same edge ids with the same ordered endpoints, and so
\* does building from the same grid again.
C30_EdgeMapHidesGuesses ==
    (call.op = "Prover::new" /\ prover # Absent)
        => /\ Prover_new(grid).val.edge_map = ret.val.edge_map
           /\ \A other \in GuessVariants(grid) :
                 Prover_new(other).val.edge_map = ret.val.edge_map

\* C30 witness: a Prover built from a grid with hints and guesses, for which a
\* grid compared has other labels in its graph.
C30_Witness ==
    /\ call.op = "Prover::new"
    /\ prover # Absent
    /\ \E x, y \in ALL_POSITIONS : grid[x][y].kind = "Hint"
    /\ \E other \in GuessVariants(grid) :
          Prover_new(other).val.prover.graph.nodes # prover.graph.nodes

----------------------------------------------------------------------------
(* Claim about the edge ids of Prover and Verifier, under Spec *)

\* C31: the Verifier's edge map and the Prover's graph agree on every edge.
\* The map Prover::new returns has exactly the graph's edge ids as keys and
\* for each the endpoints get_edge_nodes gives, in order; and the Prover's
\* response to a challenge the Verifier issued is never EdgeNotFound, names
\* the endpoints of the Verifier's map in the same order, and is not answered
\* by the Verifier with NodeMismatch.
C31_EdgeIdsAgree ==
    /\ (call.op = "Prover::new" /\ prover # Absent)
          => /\ DOMAIN ret.val.edge_map = DOMAIN prover.graph.edges
             /\ \A e \in DOMAIN ret.val.edge_map :
                   get_edge_nodes(prover.graph, e) = Ok(ret.val.edge_map[e])
    /\ (call.op = "respond_to_challenge" /\ verifier # Absent /\ ret # Panic)
          => /\ call.arg.edge \in DOMAIN verifier.edge_map
             /\ ret.tag = "Err" => ret.err # "EdgeNotFound"
             /\ ret.tag = "Ok"
                   => /\ <<ret.val.node1.node_idx, ret.val.node2.node_idx>>
                            = verifier.edge_map[call.arg.edge]
                      /\ LET checked == verify_response(verifier, ret.val).ret
                         IN  checked.tag = "Err"
                                => checked.err \notin {"NodeMismatch", "EdgeNotFound"}

\* C31 witness: the Prover answered a challenge the Verifier issued for an
\* edge other than the first, and the Verifier accepts the answer's endpoints.
C31_Witness ==
    /\ call.op = "respond_to_challenge"
    /\ verifier # Absent
    /\ ret # Panic
    /\ ret.tag = "Ok"
    /\ call.arg.edge # 0
    /\ verify_response(verifier, ret.val).ret.tag = "Ok"

----------------------------------------------------------------------------
(* Claim about the life of a VerifierRound, under Spec *)

C32_NeverAcceptedAgain ==
    [][~(/\ verifier # Absent
         /\ call'.op = "verify_response"
         /\ ret'.tag = "Ok"
         /\ verifier.rounds[call'.arg.round_id + 1].response # None)
      ]_vars

----------------------------------------------------------------------------
(* Claim about the Prover's rounds, under SpecProver *)

\* C33: the Prover's round list is append-only.  start_round appends one
\* round with empty challenged_edges and leaves the others as they are;
\* respond_to_challenge changes nothing when it fails and, when it succeeds,
\* only appends the challenged edge to the challenged_edges of the current
\* round; the permutation and the commitment keys of every round and
\* everything in the rounds before the current one never change.
C33_AppendOnly ==
    [][(prover # Absent /\ prover' # Absent)
          => /\ prover'.graph = prover.graph
             /\ Len(prover'.rounds) >= Len(prover.rounds)
             /\ \A k \in 1..Len(prover.rounds) :
                   /\ prover'.rounds[k].colour_shuffle = prover.rounds[k].colour_shuffle
                   /\ prover'.rounds[k].commitment_keys = prover.rounds[k].commitment_keys
                   /\ k # prover.current_round + 1 => prover'.rounds[k] = prover.rounds[k]
             /\ call'.op = "start_round"
                   => /\ SubSeq(prover'.rounds, 1, Len(prover.rounds)) = prover.rounds
                      /\ Len(prover'.rounds) = Len(prover.rounds) + 1
                      /\ prover'.rounds[Len(prover'.rounds)].challenged_edges = <<>>
             /\ call'.op = "respond_to_challenge"
                   => /\ Len(prover'.rounds) = Len(prover.rounds)
                      /\ prover'.current_round = prover.current_round
                      /\ (ret' = Panic \/ ret'.tag = "Err") => prover' = prover
                      /\ (ret' # Panic /\ ret'.tag = "Ok")
                            => prover'.rounds[prover.current_round + 1].challenged_edges
                                  = Append(prover.rounds[prover.current_round + 1].challenged_edges,
                                           call'.arg.edge)
      ]_vars

\* C33 witness: a challenge of the second round was answered while the first
\* round holds the edge challenged in it.
C33_Witness ==
    /\ call.op = "respond_to_challenge"
    /\ ret # Panic
    /\ ret.tag = "Ok"
    /\ Len(prover.rounds) = 2
    /\ prover.rounds[1].challenged_edges # <<>>
    /\ prover.rounds[2].challenged_edges = <<call.arg.edge>>

----------------------------------------------------------------------------
(* Claim about the orchestrator's round boundaries, under SpecRunRound *)

\* C34: state is consistent at every round boundary.  After any number of
\* run_round calls on a ZKProtocol built from a fully populated grid, rounds
\* verified or rejected, Prover and Verifier hold the same number of rounds
\* and the same current round id, and run_round has returned no error.
C34_RoundBoundary ==
    (prover # Absent /\ verifier # Absent)
        => /\ Len(prover.rounds) = Len(verifier.rounds)
           /\ prover.current_round = verifier.current_round
           /\ call.op = "run_round"
                 => /\ ret # Panic
                    /\ ret.tag = "Ok"
                    /\ ret.val.round_id = Len(verifier.rounds) - 1
                    /\ prover.current_round = ret.val.round_id

\* C34 witness: a second run_round has returned after a first round that was
\* rejected.
C34_Witness ==
    /\ call.op = "run_round"
    /\ prover # Absent
    /\ Len(verifier.rounds) = 2
    /\ ~verifier.rounds[1].verified
    /\ verifier.rounds[1].response # None
    /\ ret.tag = "Ok"

----------------------------------------------------------------------------
(* Claim about is_valid_solution, under SpecSolution *)

\* two distinct cells of one row, one column or one box
same_unit(p, q) ==
    /\ p # q
    /\ \/ p[1] = q[1]
       \/ p[2] = q[2]
       \/ (p[1] \div BoxSize = q[1] \div BoxSize /\ p[2] \div BoxSize = q[2] \div BoxSize)

\* no row, column or box of g holds a value in two populated cells
no_duplicate(g) ==
    \A p, q \in ALL_POSITIONS \X ALL_POSITIONS :
        (same_unit(p, q) /\ g[p[1]][p[2]].kind # "Empty" /\ g[q[1]][q[2]].kind # "Empty")
            => g[p[1]][p[2]].value # g[q[1]][q[2]].value

\* every row, column and box of the fully populated g holds each value once
each_value_once(g) ==
    \A u \in ALL_POSITIONS : \A v \in Values :
        /\ Cardinality({y \in ALL_POSITIONS : g[u][y].value = v}) = 1
        /\ Cardinality({x \in ALL_POSITIONS : g[x][u].value = v}) = 1
        /\ Cardinality({p \in ALL_POSITIONS \X ALL_POSITIONS :
                           /\ p[1] \div BoxSize = u \div BoxSize
                           /\ p[2] \div BoxSize = u % BoxSize
                           /\ g[p[1]][p[2]].value = v}) = 1

\* C35: is_valid_solution returns true exactly when no row, no column and no
\* box holds the same value in two populated cells, empty cells being
\* ignored; for a fully populated grid that is exactly when every row, column
\* and box contains each value once.
C35_IsValidSolution ==
    call.op = "is_valid_solution"
        => /\ ret.value <=> no_duplicate(grid)
           /\ fully_populated(grid) => (ret.value <=> each_value_once(grid))

\* C35 witness: is_valid_solution returned true for a grid with an empty cell.
C35_Witness ==
    /\ call.op = "is_valid_solution"
    /\ ret.value
    /\ ~fully_populated(grid)

\* C35 further cases, reached as well: false for a grid with an empty cell
\* and a duplicate in a box only, and true for a fully populated grid.
C35_BoxDuplicateReached ==
    /\ call.op = "is_valid_solution"
    /\ ~ret.value
    /\ ~fully_populated(grid)
    /\ rows_and_columns_valid(grid)

C35_SolutionReached ==
    /\ call.op = "is_valid_solution"
    /\ ret.value
    /\ fully_populated(grid)

----------------------------------------------------------------------------
(* Claims about errors of the Prover, under SpecGrid and SpecProver *)

\* C36: errors are returned, not thrown.  Prover::new on a grid in which
\* some cell carries no value returns the error ValueNotFound and does not
\* abort.
C36_ValueNotFound ==
    (call.op = "Prover::new" /\ ~fully_populated(grid))
        => /\ ret # Panic
           /\ ret = Err("ValueNotFound")

\* C36, what the code does: Prover::new aborts on every grid with an empty
\* cell and on no other grid.
C36_PanicOnEmptyCell ==
    call.op = "Prover::new"
        => (ret = Panic <=> ~fully_populated(grid))


\* C37: on a freshly constructed Prover, before any start_round,
\* respond_to_challenge returns an error value for every challenge, one with
\* round_id 0 included; and respond_to_challenge never aborts.
C37_NeverAborts ==
    call.op = "respond_to_challenge"
        => /\ ret # Panic
           /\ prover.rounds = <<>> => ret.tag = "Err"

\* C37, what the code does: respond_to_challenge aborts exactly for a
\* challenge with round_id 0 on a Prover without rounds, and returns
\* RoundMismatch for the other challenges on such a Prover.
C37_PanicBeforeFirstRound ==
    call.op = "respond_to_challenge"
        => /\ ret = Panic <=> (prover.rounds = <<>> /\ call.arg.round_id = 0)
           /\ (prover.rounds = <<>> /\ call.arg.round_id # 0) => ret = Err("RoundMismatch")


\* C38, as stated: within a round at most one edge is revealed; once a round
\* has answered a challenge, every further respond_to_challenge for that
\* round, for any edge, is rejected, and no round holds two challenged edges.
C38_OneEdgePerRound ==
    [][(call'.op = "respond_to_challenge" /\ prover # Absent)
       => /\ (/\ call'.arg.round_id = prover.current_round
              /\ call'.arg.round_id < Len(prover.rounds)
              /\ prover.rounds[call'.arg.round_id + 1].challenged_edges # <<>>)
                => ret'.tag = "Err"
          /\ \A k \in 1..Len(prover'.rounds) :
                Len(prover'.rounds[k].challenged_edges) <= 1]_vars

\* C38, amended: within a round each edge id is revealed at most once; a
\* challenge for the current round is answered exactly when its edge is an
\* edge of the graph not yet challenged in that round, whatever other edges
\* the round has answered, and is then added to the round's challenged edges.
C38_EachEdgeOncePerRound ==
    [][(/\ call'.op = "respond_to_challenge"
        /\ prover # Absent
        /\ call'.arg.round_id = prover.current_round
        /\ call'.arg.round_id < Len(prover.rounds))
       => LET edges == prover.rounds[call'.arg.round_id + 1].challenged_edges
              after == prover'.rounds[call'.arg.round_id + 1].challenged_edges
          IN  /\ ret'.tag = "Ok"
                    <=> /\ call'.arg.edge \in DOMAIN prover.graph.edges
                        /\ ~contains(edges, call'.arg.edge)
              /\ ret'.tag = "Ok" => after = Append(edges, call'.arg.edge)
              /\ ret'.tag = "Err" => after = edges]_vars

\* C38 witness: a second edge was answered in a round that had already
\* answered another one.
C38_Witness ==
    /\ call.op = "respond_to_challenge"
    /\ ret # Panic
    /\ ret.tag = "Ok"
    /\ call.arg.round_id = prover.current_round
    /\ Len(prover.rounds[call.arg.round_id + 1].challenged_edges) = 2
    /\ prover.rounds[call.arg.round_id + 1].challenged_edges[2] = call.arg.edge
    /\ prover.rounds[call.arg.round_id + 1].challenged_edges[1] # call.arg.edge


----------------------------------------------------------------------------
(* Claims about the Verifier's recorded rounds, under Spec *)

C39_SkippedStaysUnverified ==
    [][(verifier # Absent /\ verifier' # Absent)
          => /\ call'.op = "receive_commitment"
                   => (ret'.tag = "Ok"
                          <=> /\ call'.arg.round_id = Len(verifier.rounds)
                              /\ DOMAIN verifier.edge_map # {})
             /\ \A k \in 1..(Len(verifier.rounds) - 1) :
                   verifier'.rounds[k] = verifier.rounds[k]
             /\ \A k \in 1..Len(verifier'.rounds) :
                   /\ verifier'.rounds[k].verified => verifier'.rounds[k].response # None
                   /\ (k < Len(verifier'.rounds) /\ verifier'.rounds[k].response = None)
                         => ~verifier'.rounds[k].verified
      ]_vars

\* C39, reached: the second round was received while the first held no
\* response, and a response sent for the first round afterwards was refused;
\* the first round is still without a response and not verified.
C39_SkippedRefusedLater ==
    /\ verifier # Absent
    /\ call.op = "verify_response"
    /\ Len(verifier.rounds) = 2
    /\ verifier.rounds[1].response = None
    /\ ~verifier.rounds[1].verified
    /\ call.arg.round_id = 0
    /\ ret = Err("RoundMismatch")


\* C40: once receive_commitment has recorded a round, no later
\* receive_commitment or verify_response, successful or failing, changes that
\* round's commitment or its challenge_edge.
C40_CommitmentFrozen ==
    [][(verifier # Absent /\ verifier' # Absent)
          => \A k \in 1..Len(verifier.rounds) :
                /\ Len(verifier'.rounds) >= k
                /\ verifier'.rounds[k].commitment = verifier.rounds[k].commitment
                /\ verifier'.rounds[k].challenge_edge = verifier.rounds[k].challenge_edge
      ]_vars

\* C40 witness: a commitment with other contents was sent under the id of a
\* round already recorded and was refused; the round holds what it held.
C40_Witness ==
    /\ verifier # Absent
    /\ call.op = "receive_commitment"
    /\ call.arg.round_id = 0
    /\ Len(verifier.rounds) >= 1
    /\ call.arg.commitments # verifier.rounds[1].commitment.commitments
    /\ ret = Err("RoundMismatch")

\* C40, the other case, reached as well: a verify_response call recorded a
\* response in a round, whose commitment is the one its round id names.
C40_AnsweredReached ==
    /\ verifier # Absent
    /\ call.op = "verify_response"
    /\ ret # Panic
    /\ ret.tag = "Ok"
    /\ verifier.rounds[call.arg.round_id + 1].response # None
    /\ verifier.rounds[call.arg.round_id + 1].commitment.round_id = call.arg.round_id

====
